---- MODULE Spec2Model ----
(***************************************************************************)
(* EXIF MCP server (index.js): the path validator, the rename engine, the  *)
(* batch metadata parser and the photo tour assembler, as state machines   *)
(* over a small file system.  JavaScript strings are TLA+ strings; the     *)
(* string and path helpers below compute what the JavaScript built-ins     *)
(* compute on them.                                                        *)
(***************************************************************************)
EXTENDS Integers, Sequences, FiniteSets, TLC

VARIABLES
  renderIn,  \* template rendering: the inputs of two renders
  renderOut, \* template rendering: the two rendered names
  pathIn,    \* validateFilePath: the argument under test
  pathOut,   \* validateFilePath: its outcome
  files,     \* file system: path -> identity of the regular file stored there
  dirs,      \* file system: set of directory paths
  now,       \* wall clock, milliseconds after ClockBase
  faults,    \* number of I/O failures the environment has produced
  calls,     \* CallTool invocations: call id -> handler state
  oplog      \* history: file system operations performed, in order

vars == <<renderIn, renderOut, pathIn, pathOut, files, dirs, now, faults, calls, oplog>>

(***************************************************************************)
(* Bounds                                                                  *)
(***************************************************************************)
MaxPathLen == 4    \* longest argument given to validateFilePath
MaxFiles == 2      \* longest filepaths array
MaxClock == 1      \* clock ticks in one behaviour
MaxFaults == 1     \* injected I/O failures in one behaviour

(***************************************************************************)
(* String helpers (String.prototype)                                       *)
(***************************************************************************)
Ch(s, i) == SubSeq(s, i, i)

StartsWith(s, p) == Len(p) <= Len(s) /\ SubSeq(s, 1, Len(p)) = p

EndsWith(s, p) == Len(p) <= Len(s) /\ SubSeq(s, Len(s) - Len(p) + 1, Len(s)) = p

Includes(s, sub) == \E i \in 1..(Len(s) - Len(sub) + 1) : SubSeq(s, i, i + Len(sub) - 1) = sub

\* index of the last occurrence of the character c in s, 0 when absent
LastIndexOf(s, c) ==
  LET hits == {i \in 1..Len(s) : Ch(s, i) = c}
  IN IF hits = {} THEN 0 ELSE CHOOSE i \in hits : \A j \in hits : j <= i

\* index of the first occurrence of pat in s at or after position from, 0 when absent
IndexOfFrom(s, pat, from) ==
  LET hits == {i \in from..(Len(s) - Len(pat) + 1) : SubSeq(s, i, i + Len(pat) - 1) = pat}
  IN IF hits = {} THEN 0 ELSE CHOOSE i \in hits : \A j \in hits : i <= j

\* s.replace(pat, rep) with a string pattern: the first occurrence only
ReplaceFirst(s, pat, rep) ==
  LET k == IndexOfFrom(s, pat, 1)
  IN IF k = 0 THEN s
     ELSE SubSeq(s, 1, k - 1) \o rep \o SubSeq(s, k + Len(pat), Len(s))

RECURSIVE ReplaceAllFrom(_, _, _, _)
ReplaceAllFrom(s, pat, rep, from) ==
  LET k == IndexOfFrom(s, pat, from)
  IN IF k = 0 THEN SubSeq(s, from, Len(s))
     ELSE SubSeq(s, from, k - 1) \o rep \o ReplaceAllFrom(s, pat, rep, k + Len(pat))

\* s.replace(/pat/g, rep) for a literal pattern: every occurrence, left to right
ReplaceAll(s, pat, rep) == ReplaceAllFrom(s, pat, rep, 1)

RECURSIVE MapChars(_, _, _)
MapChars(s, F(_), i) ==
  IF i > Len(s) THEN "" ELSE F(Ch(s, i)) \o MapChars(s, F, i + 1)

Digits == <<"0", "1", "2", "3", "4", "5", "6", "7", "8", "9">>

RECURSIVE NumToString(_)
\* Number.prototype.toString for an integer
NumToString(n) ==
  IF n < 0 THEN "-" \o NumToString(0 - n)
  ELSE IF n < 10 THEN Digits[n + 1]
  ELSE NumToString(n \div 10) \o Digits[(n % 10) + 1]

RECURSIVE PadStart(_, _, _)
\* s.padStart(width, c)
PadStart(s, width, c) == IF Len(s) >= width THEN s ELSE PadStart(c \o s, width, c)

LowerOf(c) ==
  CASE c = "J" -> "j" [] c = "P" -> "p" [] c = "G" -> "g" [] c = "E" -> "e"
    [] c = "N" -> "n" [] c = "T" -> "t" [] c = "I" -> "i" [] c = "F" -> "f"
    [] OTHER -> c

ToLowerCase(s) == MapChars(s, LowerOf, 1)

(***************************************************************************)
(* path module (POSIX)                                                     *)
(***************************************************************************)
cwd == "/w"    \* process.cwd(): the authorized root

RECURSIVE SplitFrom(_, _)
\* the segments of s between "/" characters, from position from on
SplitFrom(s, from) ==
  LET k == IndexOfFrom(s, "/", from)
  IN IF k = 0 THEN <<SubSeq(s, from, Len(s))>>
     ELSE <<SubSeq(s, from, k - 1)>> \o SplitFrom(s, k + 1)

Split(s) == SplitFrom(s, 1)

RECURSIVE NormalizeSegs(_, _, _)
\* drop empty and "." segments, let ".." remove the segment before it
NormalizeSegs(segs, i, acc) ==
  IF i > Len(segs) THEN acc
  ELSE IF segs[i] = "" \/ segs[i] = "." THEN NormalizeSegs(segs, i + 1, acc)
  ELSE IF segs[i] = ".."
       THEN NormalizeSegs(segs, i + 1, IF acc = <<>> THEN acc ELSE SubSeq(acc, 1, Len(acc) - 1))
  ELSE NormalizeSegs(segs, i + 1, Append(acc, segs[i]))

RECURSIVE JoinSegs(_, _)
JoinSegs(segs, i) == IF i > Len(segs) THEN "" ELSE "/" \o segs[i] \o JoinSegs(segs, i + 1)

\* path.resolve(p): absolute, normalized, no trailing separator
resolve(p) ==
  LET abs == IF StartsWith(p, "/") THEN p ELSE cwd \o "/" \o p
      segs == NormalizeSegs(Split(abs), 1, <<>>)
  IN IF segs = <<>> THEN "/" ELSE JoinSegs(segs, 1)

\* path.dirname(p), p without trailing separator
dirname(p) ==
  LET k == LastIndexOf(p, "/")
  IN IF k = 0 THEN "." ELSE IF k = 1 THEN "/" ELSE SubSeq(p, 1, k - 1)

\* path.basename(p)
basename(p) == SubSeq(p, LastIndexOf(p, "/") + 1, Len(p))

\* path.extname(p): from the last "." of the base name, unless it starts the name
extname(p) ==
  LET b == basename(p)
      k == LastIndexOf(b, ".")
  IN IF k <= 1 THEN "" ELSE SubSeq(b, k, Len(b))

\* path.basename(p, ext)
basenameExt(p, ext) ==
  LET b == basename(p)
  IN IF ext # "" /\ b # ext /\ EndsWith(b, ext) THEN SubSeq(b, 1, Len(b) - Len(ext)) ELSE b

\* path.join(a, b)
join(a, b) ==
  LET raw == a \o "/" \o b
      segs == NormalizeSegs(Split(raw), 1, <<>>)
      body == IF segs = <<>> THEN "" ELSE SubSeq(JoinSegs(segs, 1), 2, Len(JoinSegs(segs, 1)))
  IN IF StartsWith(raw, "/") THEN "/" \o body
     ELSE IF body = "" THEN "." ELSE body

(***************************************************************************)
(* JavaScript values handed in by the caller                               *)
(***************************************************************************)
Str(s) == [t |-> "string", v |-> s]
Num42 == [t |-> "number", v |-> "42"]    \* a non-string array element

(***************************************************************************)
(* Security and validation functions                                       *)
(***************************************************************************)
ErrInvalidPath == "Invalid file path provided"
ErrTraversal == "Path traversal detected - access denied"

Ok(p) == [ok |-> TRUE, path |-> p, error |-> ""]
Throw(msg) == [ok |-> FALSE, path |-> "", error |-> msg]

\* absolutePath.startsWith(process.cwd())
withinRoot(absolutePath) == StartsWith(absolutePath, cwd)

validateFilePath(filepath) ==
  IF filepath.t # "string" \/ filepath.v = "" THEN Throw(ErrInvalidPath)
  ELSE LET absolutePath == resolve(filepath.v)
       IN IF Includes(absolutePath, "..") \/ ~withinRoot(absolutePath)
          THEN Throw(ErrTraversal)
          ELSE Ok(absolutePath)

AllowedExts == <<".jpg", ".jpeg", ".png", ".tiff", ".tif", ".heic", ".heif", ".webp", ".avif">>

RECURSIVE JoinList(_, _, _)
\* Array.prototype.join(sep) from element i on
JoinList(list, sep, i) ==
  IF i > Len(list) THEN ""
  ELSE IF i = Len(list) THEN list[i]
  ELSE list[i] \o sep \o JoinList(list, sep, i + 1)

\* existsSync(p) in the file system fs = [files, dirs]
existsSync(fs, p) == resolve(p) \in DOMAIN fs.files \/ resolve(p) \in fs.dirs

\* validateFileExists(filepath)
validateFileExists(fs, filepath) ==
  IF existsSync(fs, filepath) THEN Ok(filepath) ELSE Throw("File not found: " \o filepath)

\* validateImageFile(filepath)
validateImageFile(filepath) ==
  LET ext == ToLowerCase(extname(filepath))
  IN IF \E k \in 1..Len(AllowedExts) : AllowedExts[k] = ext
     THEN Ok(filepath)
     ELSE Throw("Unsupported file type: " \o ext \o ". Supported types: "
                 \o JoinList(AllowedExts, ", ", 1))

(***************************************************************************)
(* Wall clock and Date                                                     *)
(***************************************************************************)
\* the local time at which the clock reads 0
ClockBase == [year |-> 2024, month |-> 6, date |-> 9, hours |-> 14, minutes |-> 30, seconds |-> 22]

Pad2(n) == PadStart(NumToString(n), 2, "0")
Pad3(n) == PadStart(NumToString(n), 3, "0")

\* Date getters, for a date d given in milliseconds after ClockBase (less than an hour)
getSeconds(d) == (ClockBase.seconds + d \div 1000) % 60
getMinutes(d) == (ClockBase.minutes + (ClockBase.seconds + d \div 1000) \div 60) % 60
getHours(d) == ClockBase.hours
getFullYear(d) == ClockBase.year
getMonth(d) == ClockBase.month
getDate(d) == ClockBase.date
getMilliseconds(d) == d % 1000

\* Date.prototype.toISOString
toISOString(d) ==
  NumToString(getFullYear(d)) \o "-" \o Pad2(getMonth(d) + 1) \o "-" \o Pad2(getDate(d))
    \o "T" \o Pad2(getHours(d)) \o ":" \o Pad2(getMinutes(d)) \o ":" \o Pad2(getSeconds(d))
    \o "." \o Pad3(getMilliseconds(d)) \o "Z"

\* formatDateForRename(date, format)
formatDateForRename(date, format) ==
  LET year == NumToString(getFullYear(date))
      month == Pad2(getMonth(date) + 1)
      day == Pad2(getDate(date))
  IN ReplaceFirst(ReplaceFirst(ReplaceFirst(format, "YYYY", year), "MM", month), "DD", day)

\* formatTimeForRename(date, format)
formatTimeForRename(date, format) ==
  LET hours == Pad2(getHours(date))
      minutes == Pad2(getMinutes(date))
      seconds == Pad2(getSeconds(date))
  IN ReplaceFirst(ReplaceFirst(ReplaceFirst(format, "HH", hours), "mm", minutes), "ss", seconds)

ColonDotToDash(c) == IF c = ":" \/ c = "." THEN "-" ELSE c

RECURSIVE probeBackupDir(_, _, _, _)
\* the while loop of createSafeBackupDir: the paths probed, the last one is free
probeBackupDir(fs, backupDir, finalBackupDir, counter) ==
  IF existsSync(fs, finalBackupDir)
  THEN <<finalBackupDir>> \o probeBackupDir(fs, backupDir, backupDir \o "_" \o NumToString(counter), counter + 1)
  ELSE <<finalBackupDir>>

\* createSafeBackupDir(originalPath): the sequence of probed paths; the result is the last
createSafeBackupDir(fs, clock, originalPath) ==
  LET dir == dirname(originalPath)
      timestamp == MapChars(toISOString(clock), ColonDotToDash, 1)
      backupDir == join(dir, "exif_backup_" \o timestamp)
  IN probeBackupDir(fs, backupDir, backupDir, 1)

(***************************************************************************)
(* File contents: what exifr.parse finds in each file                      *)
(***************************************************************************)
NoDate == 0 - 1                       \* the field is absent
Absent == [has |-> FALSE, val |-> 0]  \* an absent numeric field
Val(n) == [has |-> TRUE, val |-> n]

NoData ==
  [present |-> FALSE, DateTimeOriginal |-> NoDate, CreateDate |-> NoDate,
   Make |-> "", Model |-> "", LensModel |-> "",
   latitude |-> Absent, longitude |-> Absent, altitude |-> 0, City |-> "", Country |-> ""]

FileIds == {"f1", "f2", "f3", "f4", "f5"}

\* the metadata record exifr.parse returns for a file; NoData when it returns undefined
Meta(f) ==
  CASE f = "f1" ->
         [present |-> TRUE, DateTimeOriginal |-> 2000, CreateDate |-> 2000,
          Make |-> "Canon", Model |-> "EOS R5", LensModel |-> "RF 24/70",
          latitude |-> Val(45), longitude |-> Val(7), altitude |-> 300,
          City |-> "Turin", Country |-> "Italy"]
    [] f = "f2" -> NoData
    [] f = "f3" ->
         [present |-> TRUE, DateTimeOriginal |-> NoDate, CreateDate |-> 0,
          Make |-> "", Model |-> "", LensModel |-> "F&G",
          latitude |-> Val(46), longitude |-> Val(8), altitude |-> 0,
          City |-> "", Country |-> ""]
    [] f = "f4" ->
         [present |-> TRUE, DateTimeOriginal |-> NoDate, CreateDate |-> NoDate,
          Make |-> "Nikon", Model |-> "Z<6>", LensModel |-> "",
          latitude |-> Val(44), longitude |-> Val(9), altitude |-> 0,
          City |-> "", Country |-> ""]
    [] f = "f5" ->
         [present |-> TRUE, DateTimeOriginal |-> 1000, CreateDate |-> 1000,
          Make |-> "Sony", Model |-> "", LensModel |-> "",
          latitude |-> Val(0), longitude |-> Val(9), altitude |-> 0,
          City |-> "", Country |-> ""]

\* JavaScript truthiness of a numeric field
Truthy(x) == x.has /\ x.val # 0

(***************************************************************************)
(* Template rendering (rename_by_exif)                                     *)
(***************************************************************************)
Lower == "abcdefghijklmnopqrstuvwxyz"
Upper == "ABCDEFGHIJKLMNOPQRSTUVWXYZ"
WordChars ==
  {Ch(Lower, i) : i \in 1..26} \cup {Ch(Upper, i) : i \in 1..26}
    \cup {Digits[i] : i \in 1..10} \cup {"_"}

IsSpace(c) == c = " "

RECURSIVE ReplaceRuns(_, _, _, _)
\* s.replace(/[set]+/g, rep): every maximal run of characters of the set becomes rep
ReplaceRuns(s, InSet(_), rep, i) ==
  IF i > Len(s) THEN ""
  ELSE IF InSet(Ch(s, i))
       THEN (IF i > 1 /\ InSet(Ch(s, i - 1)) THEN "" ELSE rep) \o ReplaceRuns(s, InSet, rep, i + 1)
  ELSE Ch(s, i) \o ReplaceRuns(s, InSet, rep, i + 1)

IsUnderscore(c) == c = "_"
IsSlashOrSpace(c) == c = "/" \/ c = " "

RECURSIVE CollapseUnderscores(_, _)
\* s.replace(/_{2,}/g, '_')
CollapseUnderscores(s, i) ==
  IF i > Len(s) THEN ""
  ELSE IF Ch(s, i) = "_" /\ i > 1 /\ Ch(s, i - 1) = "_" THEN CollapseUnderscores(s, i + 1)
  ELSE Ch(s, i) \o CollapseUnderscores(s, i + 1)

\* s.replace(/^_|_$/g, '')
StripEdgeUnderscores(s) ==
  LET a == IF StartsWith(s, "_") THEN SubSeq(s, 2, Len(s)) ELSE s
  IN IF EndsWith(a, "_") THEN SubSeq(a, 1, Len(a) - 1) ELSE a

SafeChar(c) == IF c \in WordChars \/ c = "-" \/ c = "." THEN c ELSE "_"

\* the three clean-up replacements applied to the rendered name
cleanName(s) == MapChars(StripEdgeUnderscores(CollapseUnderscores(s, 1)), SafeChar, 1)

\* Number.prototype.toFixed(4) of an integer
toFixed4(n) == NumToString(n) \o ".0000"

DefaultTemplate == "{datetime}_{camera}_{original}"
DefaultDateFormat == "YYYY-MM-DD"
DefaultTimeFormat == "HHmmss"

\* counter.toString().padStart(3, '0')
counterText(counter) == PadStart(NumToString(counter), 3, "0")

\* the substitutions of the template variables, in the order of the code
substitute(template, v) ==
  ReplaceAll(ReplaceAll(ReplaceAll(ReplaceAll(ReplaceAll(ReplaceAll(ReplaceAll(ReplaceAll(
  ReplaceAll(ReplaceAll(ReplaceAll(template,
    "{date}", v.date), "{time}", v.time), "{datetime}", v.datetime), "{camera}", v.camera),
    "{model}", v.model), "{lens}", v.lens), "{location}", v.location), "{city}", v.city),
    "{country}", v.country), "{original}", v.original), "{counter}", v.counter)

\* newName before the collision probe, for one item
\* mutant: the date of a render is always the wall clock
captureDate_ignoringMetadata(exifData, clock) == clock

\* exifData.DateTimeOriginal || exifData.CreateDate || new Date()
captureDate(exifData, clock) ==
  IF exifData.DateTimeOriginal # NoDate THEN exifData.DateTimeOriginal
  ELSE IF exifData.CreateDate # NoDate THEN exifData.CreateDate
  ELSE clock

renderName(template, exifData, dateFormat, timeFormat, originalName, counter, clock) ==
  LET gps == exifData.present /\ Truthy(exifData.latitude) /\ Truthy(exifData.longitude)
      location == IF gps THEN toFixed4(exifData.latitude.val) \o "_" \o toFixed4(exifData.longitude.val)
                  ELSE ""
      city == IF gps THEN exifData.City ELSE ""
      country == IF gps THEN exifData.Country ELSE ""
      date == captureDate(exifData, clock)
      dateStr == formatDateForRename(date, dateFormat)
      timeStr == formatTimeForRename(date, timeFormat)
      withExif ==
        [date |-> dateStr, time |-> timeStr, datetime |-> dateStr \o "_" \o timeStr,
         camera |-> ReplaceRuns(IF exifData.Make # "" THEN exifData.Make ELSE "Unknown", IsSpace, "", 1),
         model |-> ReplaceRuns(exifData.Model, IsSpace, "", 1),
         lens |-> ReplaceRuns(exifData.LensModel, IsSlashOrSpace, "-", 1),
         location |-> location, city |-> city, country |-> country,
         original |-> originalName, counter |-> counterText(counter)]
      noExif ==
        [date |-> "NoDate", time |-> "NoTime", datetime |-> "NoDateTime", camera |-> "NoCamera",
         model |-> "", lens |-> "", location |-> "", city |-> "", country |-> "",
         original |-> originalName, counter |-> counterText(counter)]
  IN cleanName(substitute(template, IF exifData.present THEN withExif ELSE noExif))

RECURSIVE probeFinalPath(_, _, _, _, _, _, _)
\* the duplicate loop: the paths probed, the last one is finalPath
probeFinalPath(fs, dir, newName, ext, safePath, finalPath, dupCounter) ==
  IF existsSync(fs, finalPath) /\ finalPath # safePath
  THEN <<finalPath>> \o probeFinalPath(fs, dir, newName, ext, safePath,
                          join(dir, newName \o "_" \o NumToString(dupCounter) \o ext), dupCounter + 1)
  ELSE <<finalPath>>

(***************************************************************************)
(* File system operations (fs/promises)                                    *)
(***************************************************************************)
FS == [files |-> files, dirs |-> dirs]

RECURSIVE AncestorsAndSelf(_)
AncestorsAndSelf(p) == IF p = "/" \/ p = "." THEN {p} ELSE {p} \cup AncestorsAndSelf(dirname(p))

\* mkdir(p, {recursive: true}) succeeds unless a component of p is a regular file
mkdirOk(fs, p) == AncestorsAndSelf(resolve(p)) \cap DOMAIN fs.files = {}
mkdirDirs(fs, p) == fs.dirs \cup AncestorsAndSelf(resolve(p))

\* rename(src, dst) of a regular file: dst is replaced when it is a regular file
renameOk(fs, src, dst) ==
  /\ src \in DOMAIN fs.files
  /\ dirname(dst) \in fs.dirs
  /\ dst \notin fs.dirs
\* mutant: the move leaves the file at its source as well
renameFiles_keepingSource(fs, src, dst) ==
  [q \in DOMAIN fs.files \cup {dst} |-> IF q = dst THEN fs.files[src] ELSE fs.files[q]]

renameFiles(fs, src, dst) ==
  [q \in (DOMAIN fs.files \ {src}) \cup {dst} |-> IF q = dst THEN fs.files[src] ELSE fs.files[q]]

\* the outcomes the environment may give an I/O request: FALSE = it fails
FaultChoices == IF faults < MaxFaults THEN {FALSE, TRUE} ELSE {FALSE}

\* history record of one operation: src is the index of the caller-supplied
\* path it derives from, over tells that a move replaced another file
Ev(c, op, path, to, src, ok, over) ==
  [call |-> c, op |-> op, path |-> path, to |-> to, src |-> src, ok |-> ok, over |-> over]

RECURSIVE ProbeEvents(_, _, _, _)
ProbeEvents(c, probes, src, i) ==
  IF i > Len(probes) THEN <<>>
  ELSE <<Ev(c, "existsSync", probes[i], "", src, TRUE, FALSE)>> \o ProbeEvents(c, probes, src, i + 1)

(***************************************************************************)
(* CallTool handler state                                                  *)
(***************************************************************************)
Given(v) == [has |-> TRUE, val |-> v]
OmittedBool == [has |-> FALSE, val |-> FALSE]
OmittedStr == [has |-> FALSE, val |-> ""]
Default(arg, d) == IF arg.has THEN arg.val ELSE d

NoResponse == [sent |-> FALSE, isError |-> FALSE, text |-> "", successCount |-> 0, errorCount |-> 0]

InitCall(tool, args) ==
  [tool |-> tool, args |-> args, pc |-> "start", idx |-> 0, results |-> <<>>, counter |-> 0,
   backupDir |-> "", safePath |-> "", exifData |-> NoData, finalPath |-> "", backupPath |-> "",
   photoData |-> <<>>, photoNumber |-> 0, safeOutputPath |-> "", kmlContent |-> <<>>, tempDir |-> "",
   response |-> NoResponse]

dryRunOf(cr) == Default(cr.args.dryRun, TRUE)
backupOf(cr) == Default(cr.args.backup, TRUE)
counterStartOf(cr) == Default(cr.args.counterStart, 1)
templateOf(cr) == Default(cr.args.template, DefaultTemplate)
dateFormatOf(cr) == Default(cr.args.dateFormat, DefaultDateFormat)
timeFormatOf(cr) == Default(cr.args.timeFormat, DefaultTimeFormat)

\* the catch of the CallTool handler: an error-flagged response
toolError(cr, msg) ==
  [cr EXCEPT !.pc = "done",
             !.response = [sent |-> TRUE, isError |-> TRUE, text |-> "Error: " \o msg,
                           successCount |-> 0, errorCount |-> 0]]

ErrFilepaths == "filepaths must be a non-empty array"
\* what path.basename and path.dirname throw for an argument that is not a string
ErrPathArg == "The \"path\" argument must be of type string"

\* one entry of results; item, counter, file and finalPath are history fields
Result(item, original, new, status, exifFound, error, counter, file, finalPath) ==
  [item |-> item, original |-> original, new |-> new, status |-> status, exifFound |-> exifFound,
   error |-> error, counter |-> counter, file |-> file, finalPath |-> finalPath]

\* the per-item catch block of rename_by_exif and parse_exif_batch
catchItem(cr, i, msg) ==
  LET filepath == cr.args.filepaths.elems[i]
  IN IF filepath.t # "string" THEN toolError(cr, ErrPathArg)
     ELSE [cr EXCEPT !.results = Append(@, Result(i, basename(filepath.v), "", "error", FALSE,
                                                  msg, cr.counter, "", ""))]

\* validateFileExists and validateImageFile on a path validateFilePath returned
checkSafePath(fs, v) ==
  IF ~v.ok THEN v
  ELSE IF ~existsSync(fs, v.path) THEN validateFileExists(fs, v.path)
  ELSE validateImageFile(v.path)

\* validateFilePath, validateFileExists, validateImageFile on one element
checkItem(fs, filepath) == checkSafePath(fs, validateFilePath(filepath))

checkEvents(c, filepath, i, chk) ==
  IF chk.ok \/ chk.error \notin {ErrInvalidPath, ErrTraversal}
  THEN <<Ev(c, "validate", filepath.v, "", i, TRUE, FALSE),
         Ev(c, "existsSync", resolve(filepath.v), "", i, TRUE, FALSE)>>
  ELSE <<Ev(c, "validate", filepath.v, "", i, FALSE, FALSE)>>

CountStatus(results, S) == Cardinality({k \in 1..Len(results) : results[k].status \in S})

\* the code after the loop: the report and its summary counts
finishBatch(cr) ==
  [cr EXCEPT !.pc = "done",
             !.response =
               [sent |-> TRUE, isError |-> FALSE,
                text |-> IF cr.tool = "rename_by_exif" THEN "Batch Rename Results" ELSE "results",
                successCount |-> CountStatus(cr.results, {"preview", "pending", "renamed", "success", "no_exif"}),
                errorCount |-> CountStatus(cr.results, {"error"})]]

RECURSIVE itemLoop(_, _, _, _, _)

\* one element checked: on to its await, or through the catch block to the next
itemChecked(c, fs, cr, i, log, chk) ==
  IF chk.ok
  THEN [cr |-> [cr EXCEPT !.pc = "parse", !.idx = i, !.safePath = chk.path], log |-> log]
  ELSE IF cr.args.filepaths.elems[i].t # "string"
  THEN [cr |-> catchItem(cr, i, chk.error), log |-> log]
  ELSE itemLoop(c, fs, catchItem(cr, i, chk.error), i + 1, log)

itemCheck(c, fs, cr, i, log, chk) ==
  itemChecked(c, fs, cr, i, log \o checkEvents(c, cr.args.filepaths.elems[i], i, chk), chk)

\* the for loop from element i on, up to the next await or the return:
\* yields the handler state and the history
itemLoop(c, fs, cr, i, log) ==
  IF i > Len(cr.args.filepaths.elems) THEN [cr |-> finishBatch(cr), log |-> log]
  ELSE itemCheck(c, fs, cr, i, log, checkItem(fs, cr.args.filepaths.elems[i]))

\* the item's catch block followed by the rest of the loop
failItem(c, fs, cr, msg, log) ==
  IF cr.args.filepaths.elems[cr.idx].t # "string"
  THEN [cr |-> catchItem(cr, cr.idx, msg), log |-> log]
  ELSE itemLoop(c, fs, catchItem(cr, cr.idx, msg), cr.idx + 1, log)

Step(c, out) ==
  /\ calls' = [calls EXCEPT ![c] = out.cr]
  /\ oplog' = out.log

(***************************************************************************)
(* rename_by_exif                                                          *)
(***************************************************************************)
\* mutant: the backup directory is made in a dry run too
needsBackupDir_ignoringDryRun(backup, dryRun) == backup

\* the condition under which the batch gets a backup directory
needsBackupDir_ignoringBackup(backup, dryRun) == ~dryRun

needsBackupDir(backup, dryRun) == backup /\ ~dryRun

\* from the call to the first await
RenameStart(c) ==
  LET cr == calls[c]
      a == cr.args
      cr1 == [cr EXCEPT !.counter = counterStartOf(cr)]
  IN /\ cr.tool = "rename_by_exif" /\ cr.pc = "start"
     /\ IF ~a.filepaths.isArray \/ a.filepaths.elems = <<>>
        THEN Step(c, [cr |-> toolError(cr, ErrFilepaths), log |-> oplog])
        ELSE IF needsBackupDir(backupOf(cr), dryRunOf(cr))
        THEN IF a.filepaths.elems[1].t # "string"
             THEN Step(c, [cr |-> toolError(cr, ErrPathArg), log |-> oplog])
             ELSE LET probes == createSafeBackupDir(FS, now, a.filepaths.elems[1].v)
                  IN Step(c, [cr |-> [cr1 EXCEPT !.pc = "mkdir", !.backupDir = probes[Len(probes)]],
                              log |-> oplog \o ProbeEvents(c, probes, 1, 1)])
        ELSE Step(c, itemLoop(c, FS, cr1, 1, oplog))
     /\ UNCHANGED <<renderIn, renderOut, pathIn, pathOut, files, dirs, now, faults>>

\* await mkdir(backupDir, { recursive: true })
RenameMkdirDone(c) ==
  LET cr == calls[c]
  IN /\ cr.tool = "rename_by_exif" /\ cr.pc = "mkdir"
     /\ \E fail \in FaultChoices :
          /\ faults' = IF fail THEN faults + 1 ELSE faults
          /\ IF ~fail /\ mkdirOk(FS, cr.backupDir)
             THEN /\ dirs' = mkdirDirs(FS, cr.backupDir)
                  /\ Step(c, itemLoop(c, [files |-> files, dirs |-> mkdirDirs(FS, cr.backupDir)], cr, 1,
                                      Append(oplog, Ev(c, "mkdir", cr.backupDir, "", 1, TRUE, FALSE))))
             ELSE /\ dirs' = dirs
                  /\ Step(c, [cr |-> toolError(cr, "mkdir failed"),
                              log |-> Append(oplog, Ev(c, "mkdir", cr.backupDir, "", 1, FALSE, FALSE))])
     /\ UNCHANGED <<renderIn, renderOut, pathIn, pathOut, files, now>>

\* results.push of a rendered item, then the dry-run continue or the first move
pushRendered(c, fs, cr, log, exifData, probes) ==
  LET safePath == cr.safePath
      finalPath == probes[Len(probes)]
      cr2 == [cr EXCEPT !.exifData = exifData, !.finalPath = finalPath,
                        !.results = Append(@, Result(cr.idx, basename(safePath), basename(finalPath),
                                     IF dryRunOf(cr) THEN "preview" ELSE "pending",
                                     exifData.present, "", cr.counter, fs.files[safePath], finalPath))]
  IN IF dryRunOf(cr)
     THEN itemLoop(c, fs, [cr2 EXCEPT !.counter = @ + 1], cr.idx + 1, log \o ProbeEvents(c, probes, cr.idx, 1))
     ELSE IF backupOf(cr)
     THEN [cr |-> [cr2 EXCEPT !.pc = "hop1", !.backupPath = join(cr.backupDir, basename(safePath))],
           log |-> log \o ProbeEvents(c, probes, cr.idx, 1)]
     ELSE [cr |-> [cr2 EXCEPT !.pc = "direct"], log |-> log \o ProbeEvents(c, probes, cr.idx, 1)]

\* the collision probe for the rendered name
probeRendered(c, fs, cr, log, exifData, dir, ext, newName) ==
  pushRendered(c, fs, cr, log, exifData,
               probeFinalPath(fs, dir, newName, ext, cr.safePath, join(dir, newName \o ext), 1))

\* the item's code after exifr.parse returned exifData, up to the next await
renderItem(c, fs, cr, log, exifData, clock) ==
  probeRendered(c, fs, cr, log, exifData, dirname(cr.safePath), extname(cr.safePath),
                renderName(templateOf(cr), exifData, dateFormatOf(cr), timeFormatOf(cr),
                           basenameExt(cr.safePath, extname(cr.safePath)), cr.counter, clock))

\* await exifr.parse(safePath), then the rendering, the collision probe and
\* results.push, up to the next await
RenameParseDone(c) ==
  LET cr == calls[c]
  IN /\ cr.tool = "rename_by_exif" /\ cr.pc = "parse"
     /\ \E fail \in FaultChoices :
          /\ faults' = IF fail THEN faults + 1 ELSE faults
          /\ IF fail \/ cr.safePath \notin DOMAIN files
             THEN Step(c, failItem(c, FS, cr, "exifr.parse failed",
                                   Append(oplog, Ev(c, "parse", cr.safePath, "", cr.idx, FALSE, FALSE))))
             ELSE Step(c, renderItem(c, FS, cr, Append(oplog, Ev(c, "parse", cr.safePath, "", cr.idx, TRUE, FALSE)),
                                     Meta(files[cr.safePath]), now))
     /\ UNCHANGED <<renderIn, renderOut, pathIn, pathOut, files, dirs, now>>

\* mutant: a renamed item does not advance the counter
markRenamed_withoutCount(cr) ==
  [cr EXCEPT !.results[Len(cr.results)].status = "renamed"]

\* results[results.length - 1].status = 'renamed'; counter++
markRenamed(cr) ==
  [cr EXCEPT !.results[Len(cr.results)].status = "renamed", !.counter = @ + 1]

\* one await rename(src, dst) of the item: on success the handler goes on with
\* onSuccess, on failure with the catch block
MoveDone(c, src, dst, onSuccess(_)) ==
  LET cr == calls[c]
  IN \E fail \in FaultChoices :
       /\ faults' = IF fail THEN faults + 1 ELSE faults
       /\ IF ~fail /\ renameOk(FS, src, dst)
          THEN LET fs2 == [files |-> renameFiles(FS, src, dst), dirs |-> dirs]
                   log2 == Append(oplog, Ev(c, "rename", src, dst, cr.idx, TRUE,
                                            dst \in DOMAIN files /\ dst # src))
               IN /\ files' = fs2.files
                  /\ Step(c, onSuccess([fs |-> fs2, log |-> log2]))
          ELSE /\ files' = files
               /\ Step(c, failItem(c, FS, cr, "rename failed",
                                   Append(oplog, Ev(c, "rename", src, dst, cr.idx, FALSE, FALSE))))

\* await rename(safePath, backupPath)
RenameHop1Done(c) ==
  LET cr == calls[c]
      next(x) == [cr |-> [cr EXCEPT !.pc = "hop2"], log |-> x.log]
  IN /\ cr.tool = "rename_by_exif" /\ cr.pc = "hop1"
     /\ MoveDone(c, cr.safePath, cr.backupPath, next)
     /\ UNCHANGED <<renderIn, renderOut, pathIn, pathOut, dirs, now>>

\* await rename(backupPath, finalPath)
RenameHop2Done(c) ==
  LET cr == calls[c]
      next(x) == itemLoop(c, x.fs, markRenamed(cr), cr.idx + 1, x.log)
  IN /\ cr.tool = "rename_by_exif" /\ cr.pc = "hop2"
     /\ MoveDone(c, cr.backupPath, cr.finalPath, next)
     /\ UNCHANGED <<renderIn, renderOut, pathIn, pathOut, dirs, now>>

\* await rename(safePath, finalPath), without backup
RenameDirectDone(c) ==
  LET cr == calls[c]
      next(x) == itemLoop(c, x.fs, markRenamed(cr), cr.idx + 1, x.log)
  IN /\ cr.tool = "rename_by_exif" /\ cr.pc = "direct"
     /\ MoveDone(c, cr.safePath, cr.finalPath, next)
     /\ UNCHANGED <<renderIn, renderOut, pathIn, pathOut, dirs, now>>

(***************************************************************************)
(* parse_exif_batch, parse_exif, get_gps_coordinates                       *)
(***************************************************************************)
BatchStart(c) ==
  LET cr == calls[c]
      a == cr.args
  IN /\ cr.tool = "parse_exif_batch" /\ cr.pc = "start"
     /\ IF ~a.filepaths.isArray \/ a.filepaths.elems = <<>>
        THEN Step(c, [cr |-> toolError(cr, ErrFilepaths), log |-> oplog])
        ELSE Step(c, itemLoop(c, FS, cr, 1, oplog))
     /\ UNCHANGED <<renderIn, renderOut, pathIn, pathOut, files, dirs, now, faults>>

\* await exifr.parse(safePath, options) of one element, then results.push
BatchParseDone(c) ==
  LET cr == calls[c]
      i == cr.idx
      safePath == cr.safePath
  IN /\ cr.tool = "parse_exif_batch" /\ cr.pc = "parse"
     /\ \E fail \in FaultChoices :
          /\ faults' = IF fail THEN faults + 1 ELSE faults
          /\ IF fail \/ safePath \notin DOMAIN files
             THEN Step(c, failItem(c, FS, cr, "exifr.parse failed",
                                   Append(oplog, Ev(c, "parse", safePath, "", i, FALSE, FALSE))))
             ELSE LET exifData == Meta(files[safePath])
                      cr2 == [cr EXCEPT !.results = Append(@, Result(i, basename(safePath), "",
                                                     IF exifData.present THEN "success" ELSE "no_exif",
                                                     exifData.present, "", cr.counter, files[safePath], ""))]
                  IN Step(c, itemLoop(c, FS, cr2, i + 1,
                                      Append(oplog, Ev(c, "parse", safePath, "", i, TRUE, FALSE))))
     /\ UNCHANGED <<renderIn, renderOut, pathIn, pathOut, files, dirs, now>>

\* parse_exif reads safePath, which the case never declares: a ReferenceError
ParseExif(c) ==
  LET cr == calls[c]
  IN /\ cr.tool = "parse_exif" /\ cr.pc = "start"
     /\ Step(c, [cr |-> toolError(cr, "safePath is not defined"), log |-> oplog])
     /\ UNCHANGED <<renderIn, renderOut, pathIn, pathOut, files, dirs, now, faults>>

GpsStart(c) ==
  LET cr == calls[c]
      checked(chk) ==
        [cr |-> IF chk.ok THEN [cr EXCEPT !.pc = "gps", !.idx = 1, !.safePath = chk.path]
                ELSE toolError(cr, chk.error),
         log |-> oplog \o checkEvents(c, cr.args.filepath, 1, chk)]
  IN /\ cr.tool = "get_gps_coordinates" /\ cr.pc = "start"
     /\ Step(c, checked(checkItem(FS, cr.args.filepath)))
     /\ UNCHANGED <<renderIn, renderOut, pathIn, pathOut, files, dirs, now, faults>>

\* await exifr.gps(safePath)
GpsDone(c) ==
  LET cr == calls[c]
      safePath == cr.safePath
      respond(text) == [cr EXCEPT !.pc = "done",
                                  !.response = [sent |-> TRUE, isError |-> FALSE, text |-> text,
                                                successCount |-> 0, errorCount |-> 0]]
  IN /\ cr.tool = "get_gps_coordinates" /\ cr.pc = "gps"
     /\ \E fail \in FaultChoices :
          /\ faults' = IF fail THEN faults + 1 ELSE faults
          /\ IF fail \/ safePath \notin DOMAIN files
             THEN Step(c, [cr |-> toolError(cr, "exifr.gps failed"),
                          log |-> Append(oplog, Ev(c, "parse", safePath, "", 1, FALSE, FALSE))])
             ELSE LET gpsData == Meta(files[safePath])
                      log2 == Append(oplog, Ev(c, "parse", safePath, "", 1, TRUE, FALSE))
                  IN IF ~(gpsData.latitude.has /\ gpsData.longitude.has)
                     THEN Step(c, [cr |-> respond("No GPS data found in " \o basename(safePath)), log |-> log2])
                     ELSE Step(c, [cr |-> respond("coordinates of " \o basename(safePath)), log |-> log2])
     /\ UNCHANGED <<renderIn, renderOut, pathIn, pathOut, files, dirs, now>>

(***************************************************************************)
(* create_photo_tour_kmz                                                   *)
(***************************************************************************)
\* escapeXml(str)
escapeXml(str) ==
  ReplaceAll(ReplaceAll(ReplaceAll(ReplaceAll(ReplaceAll(str,
    "&", "&amp;"), "<", "&lt;"), ">", "&gt;"), "\"", "&quot;"), "'", "&apos;")

RECURSIVE TrimStart(_)
TrimStart(s) == IF StartsWith(s, " ") THEN TrimStart(SubSeq(s, 2, Len(s))) ELSE s
RECURSIVE TrimEnd(_)
TrimEnd(s) == IF EndsWith(s, " ") THEN TrimEnd(SubSeq(s, 1, Len(s) - 1)) ELSE s
\* String.prototype.trim
Trim(s) == TrimEnd(TrimStart(s))

\* Number.prototype.toFixed(6) and toFixed(1) of an integer
toFixed6(n) == NumToString(n) \o ".000000"
toFixed1(n) == NumToString(n) \o ".0"

\* formatDate(date): Date.prototype.toLocaleString, en-US
formatDate(d) ==
  NumToString(getMonth(d) + 1) \o "/" \o NumToString(getDate(d)) \o "/" \o NumToString(getFullYear(d))
    \o ", " \o NumToString(getHours(d) - 12) \o ":" \o Pad2(getMinutes(d)) \o ":" \o Pad2(getSeconds(d)) \o " PM"

\* the entry pushed to photoData for a file with coordinates
photoEntry(safePath, exifData, photoNumber, includeFullImages, clock) ==
  [id |-> "photo_" \o Pad3(photoNumber),
   number |-> photoNumber,
   filepath |-> safePath,
   filename |-> basename(safePath),
   latitude |-> exifData.latitude.val,
   longitude |-> exifData.longitude.val,
   altitude |-> exifData.altitude,
   datetime |-> IF exifData.DateTimeOriginal # NoDate THEN exifData.DateTimeOriginal
                ELSE IF exifData.CreateDate # NoDate THEN exifData.CreateDate
                ELSE clock,
   camera |-> Trim(exifData.Make \o " " \o exifData.Model),
   lens |-> exifData.LensModel,
   thumbnailName |-> "photo_" \o Pad3(photoNumber) \o "_thumb.jpg",
   fullImageName |-> IF includeFullImages THEN "photo_" \o Pad3(photoNumber) \o "_full.jpg" ELSE ""]

RECURSIVE insertByDatetime(_, _)
\* photo put behind the last entry whose datetime is not later than its own
insertByDatetime(sorted, photo) ==
  IF sorted = <<>> THEN <<photo>>
  ELSE IF sorted[Len(sorted)].datetime <= photo.datetime THEN Append(sorted, photo)
  ELSE Append(insertByDatetime(SubSeq(sorted, 1, Len(sorted) - 1), photo), sorted[Len(sorted)])

RECURSIVE sortFrom(_, _, _)
sortFrom(photoData, i, acc) ==
  IF i > Len(photoData) THEN acc ELSE sortFrom(photoData, i + 1, insertByDatetime(acc, photoData[i]))

\* photoData.sort((a, b) => new Date(a.datetime) - new Date(b.datetime)), a stable sort
sortByDatetime(photoData) == sortFrom(photoData, 1, <<>>)

\* the number generateKML shows for the photo at position i of photoData
shownNumber(photoData, i) == photoData[i].number

\* the lines generateKML pushes for the photo at position i
placemarkLines(photoData, i, numberPhotos) ==
  LET photo == photoData[i]
  IN <<"    <Placemark>",
       "      <name>" \o (IF numberPhotos THEN NumToString(shownNumber(photoData, i)) \o ". " ELSE "")
          \o escapeXml(photo.filename) \o "</name>",
       "      <description>" \o "<![CDATA["
          \o "<img src=\"images/" \o photo.thumbnailName \o "\" width=\"400\" /><br/>"
          \o "<b>Photo #" \o NumToString(shownNumber(photoData, i)) \o "</b><br/>"
          \o "Date: " \o formatDate(photo.datetime) \o "<br/>"
          \o (IF photo.camera # "" THEN "Camera: " \o photo.camera \o "<br/>" ELSE "")
          \o (IF photo.lens # "" THEN "Lens: " \o photo.lens \o "<br/>" ELSE "")
          \o "GPS: " \o toFixed6(photo.latitude) \o ", " \o toFixed6(photo.longitude) \o "<br/>"
          \o (IF photo.altitude > 0 THEN "Altitude: " \o toFixed1(photo.altitude) \o "m<br/>" ELSE "")
          \o "]]>" \o "</description>",
       "      <styleUrl>#photoIcon</styleUrl>",
       "      <Point>",
       "        <coordinates>" \o NumToString(photo.longitude) \o "," \o NumToString(photo.latitude)
          \o "," \o NumToString(photo.altitude) \o "</coordinates>",
       "      </Point>",
       "      <TimeStamp>",
       "        <when>" \o toISOString(photo.datetime) \o "</when>",
       "      </TimeStamp>",
       "    </Placemark>">>

RECURSIVE allPlacemarks(_, _, _)
allPlacemarks(photoData, i, numberPhotos) ==
  IF i > Len(photoData) THEN <<>>
  ELSE placemarkLines(photoData, i, numberPhotos) \o allPlacemarks(photoData, i + 1, numberPhotos)

RECURSIVE pathVertices(_, _)
pathVertices(photoData, i) ==
  IF i > Len(photoData) THEN <<>>
  ELSE <<"        " \o NumToString(photoData[i].longitude) \o "," \o NumToString(photoData[i].latitude)
           \o "," \o NumToString(photoData[i].altitude)>> \o pathVertices(photoData, i + 1)

\* generateKML(photoData, title, description, drawPath, numberPhotos): the lines of the document
generateKML(photoData, title, description, drawPath, numberPhotos) ==
  <<"<?xml version=\"1.0\" encoding=\"UTF-8\"?>",
    "<kml xmlns=\"http://www.opengis.net/kml/2.2\">",
    "<Document>",
    "  <name>" \o escapeXml(title) \o "</name>">>
  \o (IF description # "" THEN <<"  <description>" \o escapeXml(description) \o "</description>">> ELSE <<>>)
  \o <<"  <Style id=\"photoIcon\">", "    <IconStyle>", "      <Icon>",
       "        <href>http://maps.google.com/mapfiles/kml/paddle/red-circle.png</href>",
       "      </Icon>",
       "      <hotSpot x=\"0.5\" y=\"0\" xunits=\"fraction\" yunits=\"fraction\"/>",
       "    </IconStyle>", "  </Style>",
       "  <Style id=\"pathStyle\">", "    <LineStyle>", "      <color>ff0000ff</color>",
       "      <width>3</width>", "    </LineStyle>", "  </Style>",
       "  <Folder>", "    <name>Photos</name>">>
  \o allPlacemarks(photoData, 1, numberPhotos)
  \o <<"  </Folder>">>
  \o (IF drawPath /\ Len(photoData) > 1
      THEN <<"  <Placemark>", "    <name>Photo Path</name>",
             "    <description>The path taken between photos</description>",
             "    <styleUrl>#pathStyle</styleUrl>", "    <LineString>",
             "      <tessellate>1</tessellate>", "      <coordinates>">>
           \o pathVertices(photoData, 1)
           \o <<"      </coordinates>", "    </LineString>", "  </Placemark>">>
      ELSE <<>>)
  \o <<"</Document>", "</kml>">>

titleOf(cr) == Default(cr.args.tour.title, "My Photo Journey")
descriptionOf(cr) == Default(cr.args.tour.description, "")
includeFullImagesOf(cr) == Default(cr.args.tour.includeFullImages, FALSE)
drawPathOf(cr) == Default(cr.args.tour.drawPath, TRUE)
numberPhotosOf(cr) == Default(cr.args.tour.numberPhotos, TRUE)

respond(cr, text) ==
  [cr EXCEPT !.pc = "done",
             !.response = [sent |-> TRUE, isError |-> FALSE, text |-> text,
                           successCount |-> 0, errorCount |-> 0]]

\* the code after the collection loop, up to the first mkdir
tourAssemble(cr, sorted, clock) ==
  [cr EXCEPT !.pc = "mkdirTemp",
             !.photoData = sorted,
             !.kmlContent = generateKML(sorted, titleOf(cr), descriptionOf(cr), drawPathOf(cr),
                                        numberPhotosOf(cr)),
             !.tempDir = join(dirname(cr.safeOutputPath), ".kmz_temp_" \o NumToString(clock))]

tourCollected_alwaysAssembling(cr, clock) ==
  tourAssemble(cr, sortByDatetime(cr.photoData), clock)

tourCollected(cr, clock) ==
  IF Len(cr.photoData) = 0
  THEN respond(cr, "No photos with GPS data found in the provided files.")
  ELSE tourAssemble(cr, sortByDatetime(cr.photoData), clock)

RECURSIVE tourLoop(_, _, _, _, _, _)

\* one element checked: on to its await, or past the empty catch block to the next
tourChecked(c, fs, cr, i, log, chk, clock) ==
  IF chk.ok
  THEN [cr |-> [cr EXCEPT !.pc = "parse", !.idx = i, !.safePath = chk.path], log |-> log]
  ELSE tourLoop(c, fs, cr, i + 1, log, clock)

tourCheck(c, fs, cr, i, log, chk, clock) ==
  tourChecked(c, fs, cr, i, log \o checkEvents(c, cr.args.filepaths.elems[i], i, chk), chk, clock)

\* the collection loop from element i on, up to the next await or the return
tourLoop(c, fs, cr, i, log, clock) ==
  IF i > Len(cr.args.filepaths.elems) THEN [cr |-> tourCollected(cr, clock), log |-> log]
  ELSE tourCheck(c, fs, cr, i, log, checkItem(fs, cr.args.filepaths.elems[i]), clock)

\* the checks of outputPath, then the loop up to the first await
tourOutputChecked_withoutExtensionCheck(c, fs, cr, log, v, clock) ==
  IF ~v.ok THEN [cr |-> toolError(cr, v.error), log |-> Append(log, Ev(c, "validate", cr.args.tour.outputPath.v, "", 0, FALSE, FALSE))]
  ELSE tourLoop(c, fs, [cr EXCEPT !.safeOutputPath = v.path, !.photoNumber = 1], 1,
                Append(log, Ev(c, "validate", cr.args.tour.outputPath.v, "", 0, TRUE, FALSE)), clock)

tourOutputChecked(c, fs, cr, log, v, clock) ==
  IF ~v.ok THEN [cr |-> toolError(cr, v.error), log |-> Append(log, Ev(c, "validate", cr.args.tour.outputPath.v, "", 0, FALSE, FALSE))]
  ELSE IF ~EndsWith(v.path, ".kmz")
  THEN [cr |-> toolError(cr, "Output path must end with .kmz extension"),
        log |-> Append(log, Ev(c, "validate", cr.args.tour.outputPath.v, "", 0, TRUE, FALSE))]
  ELSE tourLoop(c, fs, [cr EXCEPT !.safeOutputPath = v.path, !.photoNumber = 1], 1,
                Append(log, Ev(c, "validate", cr.args.tour.outputPath.v, "", 0, TRUE, FALSE)), clock)

TourStart(c) ==
  LET cr == calls[c]
  IN /\ cr.tool = "create_photo_tour_kmz" /\ cr.pc = "start"
     /\ IF ~cr.args.filepaths.isArray \/ cr.args.filepaths.elems = <<>>
        THEN Step(c, [cr |-> toolError(cr, ErrFilepaths), log |-> oplog])
        ELSE Step(c, tourOutputChecked(c, FS, cr, oplog, validateFilePath(cr.args.tour.outputPath), now))
     /\ UNCHANGED <<renderIn, renderOut, pathIn, pathOut, files, dirs, now, faults>>

\* the file has both coordinates: exifData && exifData.latitude && exifData.longitude
hasCoordinates(exifData) ==
  exifData.present /\ Truthy(exifData.latitude) /\ Truthy(exifData.longitude)

\* the body of the try block after exifr.parse returned exifData
tourCollect(cr, exifData, clock) ==
  IF hasCoordinates(exifData)
  THEN [cr EXCEPT !.photoData = Append(@, photoEntry(cr.safePath, exifData, cr.photoNumber,
                                                    includeFullImagesOf(cr), clock)),
                  !.photoNumber = @ + 1]
  ELSE cr

\* await exifr.parse(safePath, {gps, pick}) of one element
TourParseDone(c) ==
  LET cr == calls[c]
  IN /\ cr.tool = "create_photo_tour_kmz" /\ cr.pc = "parse"
     /\ \E fail \in FaultChoices :
          /\ faults' = IF fail THEN faults + 1 ELSE faults
          /\ IF fail \/ cr.safePath \notin DOMAIN files
             THEN Step(c, tourLoop(c, FS, cr, cr.idx + 1,
                                   Append(oplog, Ev(c, "parse", cr.safePath, "", cr.idx, FALSE, FALSE)), now))
             ELSE Step(c, tourLoop(c, FS, tourCollect(cr, Meta(files[cr.safePath]), now), cr.idx + 1,
                                   Append(oplog, Ev(c, "parse", cr.safePath, "", cr.idx, TRUE, FALSE)), now))
     /\ UNCHANGED <<renderIn, renderOut, pathIn, pathOut, files, dirs, now>>

\* an awaited mkdir of the tour: the next step on success, the handler's catch on failure
TourMkdir(c, at, p, then) ==
  LET cr == calls[c]
  IN /\ cr.tool = "create_photo_tour_kmz" /\ cr.pc = at
     /\ \E fail \in FaultChoices :
          /\ faults' = IF fail THEN faults + 1 ELSE faults
          /\ IF ~fail /\ mkdirOk(FS, p)
             THEN /\ dirs' = mkdirDirs(FS, p)
                  /\ Step(c, [cr |-> [cr EXCEPT !.pc = then],
                              log |-> Append(oplog, Ev(c, "mkdir", p, "", 0, TRUE, FALSE))])
             ELSE /\ dirs' = dirs
                  /\ Step(c, [cr |-> toolError(cr, "mkdir failed"),
                              log |-> Append(oplog, Ev(c, "mkdir", p, "", 0, FALSE, FALSE))])
     /\ UNCHANGED <<renderIn, renderOut, pathIn, pathOut, files, now>>

\* await mkdir(tempDir, { recursive: true })
TourMkdirTemp(c) == TourMkdir(c, "mkdirTemp", calls[c].tempDir, "mkdirImages")

\* await mkdir(path.join(tempDir, 'images'), { recursive: true })
TourMkdirImages(c) == TourMkdir(c, "mkdirImages", join(calls[c].tempDir, "images"), "writeKml")

\* the file system with a regular file written at p
withFile(p, content) == [q \in DOMAIN files \cup {p} |-> IF q = p THEN content ELSE files[q]]

\* a write succeeds when the directory of p exists and p is no directory
writeOk(p) == dirname(p) \in dirs /\ p \notin dirs

\* the step after the thumbnail loop's element i: the next element or the archive
thumbNext(cr, i) ==
  IF i > Len(cr.photoData) THEN [cr EXCEPT !.pc = "archive", !.idx = i]
  ELSE [cr EXCEPT !.pc = "thumb", !.idx = i]

\* await writeFile(path.join(tempDir, 'doc.kml'), kmlContent)
TourWriteKml(c) ==
  LET cr == calls[c]
      p == join(cr.tempDir, "doc.kml")
  IN /\ cr.tool = "create_photo_tour_kmz" /\ cr.pc = "writeKml"
     /\ \E fail \in FaultChoices :
          /\ faults' = IF fail THEN faults + 1 ELSE faults
          /\ IF ~fail /\ writeOk(p)
             THEN /\ files' = withFile(p, "kml")
                  /\ Step(c, [cr |-> thumbNext(cr, 1),
                              log |-> Append(oplog, Ev(c, "writeFile", p, "", 0, TRUE, FALSE))])
             ELSE /\ files' = files
                  /\ Step(c, [cr |-> toolError(cr, "writeFile failed"),
                              log |-> Append(oplog, Ev(c, "writeFile", p, "", 0, FALSE, FALSE))])
     /\ UNCHANGED <<renderIn, renderOut, pathIn, pathOut, dirs, now>>

\* await sharp(photo.filepath).resize(...).jpeg(...).toFile(thumbnailPath)
TourThumbDone(c) ==
  LET cr == calls[c]
      photo == cr.photoData[cr.idx]
      p == join(join(cr.tempDir, "images"), photo.thumbnailName)
  IN /\ cr.tool = "create_photo_tour_kmz" /\ cr.pc = "thumb"
     /\ \E fail \in FaultChoices :
          /\ faults' = IF fail THEN faults + 1 ELSE faults
          /\ IF ~fail /\ photo.filepath \in DOMAIN files /\ writeOk(p)
             THEN /\ files' = withFile(p, "thumbnail")
                  /\ Step(c, [cr |-> IF includeFullImagesOf(cr) /\ photo.fullImageName # ""
                                     THEN [cr EXCEPT !.pc = "full"] ELSE thumbNext(cr, cr.idx + 1),
                              log |-> Append(oplog, Ev(c, "toFile", photo.filepath, p, 0, TRUE, FALSE))])
             ELSE /\ files' = files
                  /\ Step(c, [cr |-> thumbNext(cr, cr.idx + 1),
                              log |-> Append(oplog, Ev(c, "toFile", photo.filepath, p, 0, FALSE, FALSE))])
     /\ UNCHANGED <<renderIn, renderOut, pathIn, pathOut, dirs, now>>

\* await sharp(photo.filepath).jpeg(...).toFile(fullImagePath)
TourFullDone(c) ==
  LET cr == calls[c]
      photo == cr.photoData[cr.idx]
      p == join(join(cr.tempDir, "images"), photo.fullImageName)
  IN /\ cr.tool = "create_photo_tour_kmz" /\ cr.pc = "full"
     /\ \E fail \in FaultChoices :
          /\ faults' = IF fail THEN faults + 1 ELSE faults
          /\ files' = IF ~fail /\ photo.filepath \in DOMAIN files /\ writeOk(p)
                      THEN withFile(p, "full") ELSE files
          /\ Step(c, [cr |-> thumbNext(cr, cr.idx + 1),
                      log |-> Append(oplog, Ev(c, "toFile", photo.filepath, p, 0,
                                               ~fail /\ photo.filepath \in DOMAIN files /\ writeOk(p), FALSE))])
     /\ UNCHANGED <<renderIn, renderOut, pathIn, pathOut, dirs, now>>

\* the archive written to safeOutputPath: resolved on close, rejected on an archive error
TourArchiveDone(c) ==
  LET cr == calls[c]
  IN /\ cr.tool = "create_photo_tour_kmz" /\ cr.pc = "archive"
     /\ \E fail \in FaultChoices :
          /\ faults' = IF fail THEN faults + 1 ELSE faults
          /\ IF ~fail /\ writeOk(cr.safeOutputPath)
             THEN /\ files' = withFile(cr.safeOutputPath, "kmz")
                  /\ Step(c, [cr |-> [cr EXCEPT !.pc = "cleanup"],
                              log |-> Append(oplog, Ev(c, "archive", cr.tempDir, cr.safeOutputPath, 0, TRUE, FALSE))])
             ELSE /\ files' = files
                  /\ Step(c, [cr |-> toolError(cr, "archive failed"),
                              log |-> Append(oplog, Ev(c, "archive", cr.tempDir, cr.safeOutputPath, 0, FALSE, FALSE))])
     /\ UNCHANGED <<renderIn, renderOut, pathIn, pathOut, dirs, now>>

\* p is dir or lies below it
Under(dir, p) == p = dir \/ StartsWith(p, dir \o "/")

\* await removeDir(tempDir): rm(dir, { recursive: true, force: true })
TourRemoveDone(c) ==
  LET cr == calls[c]
  IN /\ cr.tool = "create_photo_tour_kmz" /\ cr.pc = "cleanup"
     /\ \E fail \in FaultChoices :
          /\ faults' = IF fail THEN faults + 1 ELSE faults
          /\ IF ~fail
             THEN /\ files' = [q \in {q \in DOMAIN files : ~Under(cr.tempDir, q)} |-> files[q]]
                  /\ dirs' = {d \in dirs : ~Under(cr.tempDir, d)}
                  /\ Step(c, [cr |-> [cr EXCEPT !.pc = "stat"],
                              log |-> Append(oplog, Ev(c, "rm", cr.tempDir, "", 0, TRUE, FALSE))])
             ELSE /\ files' = files
                  /\ dirs' = dirs
                  /\ Step(c, [cr |-> toolError(cr, "rm failed"),
                              log |-> Append(oplog, Ev(c, "rm", cr.tempDir, "", 0, FALSE, FALSE))])
     /\ UNCHANGED <<renderIn, renderOut, pathIn, pathOut, now>>

\* await stat(safeOutputPath), then the summary
TourStatDone(c) ==
  LET cr == calls[c]
  IN /\ cr.tool = "create_photo_tour_kmz" /\ cr.pc = "stat"
     /\ \E fail \in FaultChoices :
          /\ faults' = IF fail THEN faults + 1 ELSE faults
          /\ IF ~fail /\ cr.safeOutputPath \in DOMAIN files
             THEN Step(c, [cr |-> respond(cr, "Photo Tour KMZ Created!"),
                           log |-> Append(oplog, Ev(c, "stat", cr.safeOutputPath, "", 0, TRUE, FALSE))])
             ELSE Step(c, [cr |-> toolError(cr, "stat failed"),
                           log |-> Append(oplog, Ev(c, "stat", cr.safeOutputPath, "", 0, FALSE, FALSE))])
     /\ UNCHANGED <<renderIn, renderOut, pathIn, pathOut, files, dirs, now>>

(***************************************************************************)
(* Environment: the clock                                                  *)
(***************************************************************************)
\* one second passes while some invocation is running
\* the names of the tools the ListTools handler returns
ToolNames ==
  {"parse_exif", "parse_exif_batch", "get_gps_coordinates", "rename_by_exif", "create_photo_tour_kmz"}

\* the ListToolsRequestSchema handler
ListTools(c) ==
  LET cr == calls[c]
  IN /\ cr.tool = "tools/list" /\ cr.pc = "start"
     /\ Step(c, [cr |-> [cr EXCEPT !.pc = "done",
                                   !.response = [sent |-> TRUE, isError |-> FALSE, text |-> "",
                                                 successCount |-> 0, errorCount |-> 0,
                                                 tools |-> ToolNames]],
                 log |-> oplog])
     /\ UNCHANGED <<renderIn, renderOut, pathIn, pathOut, files, dirs, now, faults>>

\* the default case of the CallTool switch
UnknownTool(c) ==
  LET cr == calls[c]
  IN /\ cr.tool \notin ToolNames \cup {"tools/list"} /\ cr.pc = "start"
     /\ Step(c, [cr |-> toolError(cr, "Unknown tool: " \o cr.tool), log |-> oplog])
     /\ UNCHANGED <<renderIn, renderOut, pathIn, pathOut, files, dirs, now, faults>>

Tick ==
  /\ now < MaxClock * 1000
  /\ \E c \in DOMAIN calls : calls[c].pc # "done"
  /\ now' = now + 1000
  /\ UNCHANGED <<renderIn, renderOut, pathIn, pathOut, files, dirs, faults, calls, oplog>>

(***************************************************************************)
(* validateFilePath on its own                                             *)
(***************************************************************************)
PathAlphabet == {"/", ".", "w", "x"}

RECURSIVE StringsUpTo(_)
StringsUpTo(n) ==
  IF n = 0 THEN {""}
  ELSE LET S == StringsUpTo(n - 1) IN S \cup {s \o a : s \in S, a \in PathAlphabet}

PathInputs == {Str(s) : s \in StringsUpTo(MaxPathLen)} \cup {Num42}

PathIdle == [done |-> FALSE, res |-> Throw("")]

(***************************************************************************)
(* Template rendering on its own: two renders of the same inputs at two    *)
(* wall-clock times                                                        *)
(***************************************************************************)
RenderIdle == [done |-> FALSE, first |-> "", second |-> ""]

\* the wall-clock times a render can happen at
ClockValues == {k * 1000 : k \in 0..MaxClock}

RenderTemplates == {DefaultTemplate, "{date}", "{counter}_{original}", "{time}_{model}"}

RenderInputs ==
  [template : RenderTemplates, file : FileIds, counter : {1, 7},
   firstClock : ClockValues, secondClock : ClockValues]

NoRender == [template |-> "", file |-> "f2", counter |-> 0, firstClock |-> 0, secondClock |-> 0]

\* the name rendered for the inputs at the wall-clock time clock
renderAt(in, clock) ==
  renderName(in.template, Meta(in.file), DefaultDateFormat, DefaultTimeFormat, "a", in.counter, clock)

RenderTwice ==
  /\ ~renderOut.done
  /\ renderOut' = [done |-> TRUE, first |-> renderAt(renderIn, renderIn.firstClock),
                   second |-> renderAt(renderIn, renderIn.secondClock)]
  /\ UNCHANGED <<renderIn, pathIn, pathOut, files, dirs, now, faults, calls, oplog>>

ValidatePath ==
  /\ ~pathOut.done
  /\ pathOut' = [done |-> TRUE, res |-> validateFilePath(pathIn)]
  /\ UNCHANGED <<renderIn, renderOut, pathIn, files, dirs, now, faults, calls, oplog>>

(***************************************************************************)
(* Initial states                                                          *)
(***************************************************************************)
Files0 ==
  [p \in {"/w/a.jpg", "/w/b.jpg", "/w/s/a.jpg", "/w/c.jpg", "/w/e.jpg"} |->
     CASE p = "/w/a.jpg" -> "f1" [] p = "/w/b.jpg" -> "f2" [] p = "/w/s/a.jpg" -> "f3"
       [] p = "/w/c.jpg" -> "f4" [] OTHER -> "f5"]
Dirs0 == {"/", "/w", "/w/s"}

\* the values a caller puts into filepaths: three images, a path outside the
\* root and a number
RawPaths == {Str("/w/a.jpg"), Str("/w/b.jpg"), Str("/w/s/a.jpg"), Str("/o/d.jpg"), Num42}

NoFilepaths == [isArray |-> FALSE, elems |-> <<>>]
FilepathsChoices ==
  {NoFilepaths} \cup {[isArray |-> TRUE, elems |-> e] : e \in UNION {[1..n -> RawPaths] : n \in 0..MaxFiles}}

\* dryRun and backup as the caller gives them
ModeChoices ==
  {<<OmittedBool, OmittedBool>>, <<Given(TRUE), Given(TRUE)>>, <<Given(TRUE), Given(FALSE)>>,
   <<OmittedBool, Given(FALSE)>>, <<Given(FALSE), OmittedBool>>, <<Given(FALSE), Given(TRUE)>>,
   <<Given(FALSE), Given(FALSE)>>}

\* template and counterStart as the caller gives them
TemplateChoices ==
  {<<OmittedStr, Absent>>, <<Given("{counter}"), Absent>>, <<Given("{counter}"), Val(7)>>,
   <<Given("b"), Absent>>}

NoTourArgs ==
  [outputPath |-> Num42, title |-> OmittedStr, description |-> OmittedStr,
   includeFullImages |-> OmittedBool, drawPath |-> OmittedBool, numberPhotos |-> OmittedBool]

Args(filepaths, filepath, template, dryRun, backup, counterStart) ==
  [filepaths |-> filepaths, filepath |-> filepath, template |-> template,
   dateFormat |-> OmittedStr, timeFormat |-> OmittedStr,
   dryRun |-> dryRun, backup |-> backup, counterStart |-> counterStart, tour |-> NoTourArgs]

RenameCalls ==
  {InitCall("rename_by_exif", Args(f, Num42, t[1], m[1], m[2], t[2])) :
     f \in FilepathsChoices, t \in TemplateChoices, m \in ModeChoices}

BatchCalls ==
  {InitCall("parse_exif_batch", Args(f, Num42, OmittedStr, OmittedBool, OmittedBool, Absent)) :
     f \in FilepathsChoices}

SingleCalls ==
  {InitCall(t, Args(NoFilepaths, p, OmittedStr, OmittedBool, OmittedBool, Absent)) :
     t \in {"parse_exif", "get_gps_coordinates"}, p \in RawPaths}

\* a tools/list request and a call of a tool the switch has no case for
OtherCalls ==
  {InitCall("tools/list", Args(NoFilepaths, Num42, OmittedStr, OmittedBool, OmittedBool, Absent))}
    \cup {InitCall("strip_exif", Args(NoFilepaths, p, OmittedStr, OmittedBool, OmittedBool, Absent)) :
             p \in RawPaths}

InitEnv ==
  /\ files = Files0
  /\ dirs = Dirs0
  /\ now = 0
  /\ faults = 0
  /\ oplog = <<>>

Init ==
  /\ InitEnv
  /\ pathIn = Num42
  /\ pathOut = PathIdle
  /\ renderIn = NoRender
  /\ renderOut = RenderIdle
  /\ calls \in {[c \in {1} |-> cr] : cr \in RenameCalls \cup BatchCalls \cup SingleCalls \cup OtherCalls}

Next ==
  \/ \E c \in DOMAIN calls : RenameStart(c)
  \/ \E c \in DOMAIN calls : RenameMkdirDone(c)
  \/ \E c \in DOMAIN calls : RenameParseDone(c)
  \/ \E c \in DOMAIN calls : RenameHop1Done(c)
  \/ \E c \in DOMAIN calls : RenameHop2Done(c)
  \/ \E c \in DOMAIN calls : RenameDirectDone(c)
  \/ \E c \in DOMAIN calls : BatchStart(c)
  \/ \E c \in DOMAIN calls : BatchParseDone(c)
  \/ \E c \in DOMAIN calls : ParseExif(c)
  \/ \E c \in DOMAIN calls : GpsStart(c)
  \/ \E c \in DOMAIN calls : GpsDone(c)
  \/ \E c \in DOMAIN calls : ListTools(c)
  \/ \E c \in DOMAIN calls : UnknownTool(c)
  \/ Tick

Spec == Init /\ [][Next]_vars

\* the values a caller puts into the filepaths of a tour
TourPaths ==
  {Str("/w/a.jpg"), Str("/w/b.jpg"), Str("/w/s/a.jpg"), Str("/w/c.jpg"), Str("/w/e.jpg"), Num42}

TourFilepaths ==
  {NoFilepaths} \cup {[isArray |-> TRUE, elems |-> e] : e \in UNION {[1..n -> TourPaths] : n \in 0..MaxFiles}}

\* outputPath, title, includeFullImages, drawPath and numberPhotos as the caller gives them
TourOptions ==
  {[outputPath |-> Str("/w/t.kmz"), title |-> OmittedStr, description |-> OmittedStr,
    includeFullImages |-> OmittedBool, drawPath |-> OmittedBool, numberPhotos |-> OmittedBool],
   [outputPath |-> Str("/w/out/t.kmz"), title |-> Given("A&B <1>"), description |-> Given("it's \"ours\""),
    includeFullImages |-> Given(TRUE), drawPath |-> Given(FALSE), numberPhotos |-> Given(FALSE)],
   [outputPath |-> Str("/w/t.zip"), title |-> OmittedStr, description |-> OmittedStr,
    includeFullImages |-> OmittedBool, drawPath |-> OmittedBool, numberPhotos |-> OmittedBool],
   [outputPath |-> Str("/o/t.kmz"), title |-> OmittedStr, description |-> OmittedStr,
    includeFullImages |-> OmittedBool, drawPath |-> OmittedBool, numberPhotos |-> OmittedBool]}

TourCalls ==
  {[InitCall("create_photo_tour_kmz", Args(f, Num42, OmittedStr, OmittedBool, OmittedBool, Absent))
      EXCEPT !.args.tour = o] : f \in TourFilepaths, o \in TourOptions}

InitTour ==
  /\ InitEnv
  /\ pathIn = Num42
  /\ pathOut = PathIdle
  /\ renderIn = NoRender
  /\ renderOut = RenderIdle
  /\ calls \in {[c \in {1} |-> cr] : cr \in TourCalls}

NextTour ==
  \/ \E c \in DOMAIN calls : TourStart(c)
  \/ \E c \in DOMAIN calls : TourParseDone(c)
  \/ \E c \in DOMAIN calls : TourMkdirTemp(c)
  \/ \E c \in DOMAIN calls : TourMkdirImages(c)
  \/ \E c \in DOMAIN calls : TourWriteKml(c)
  \/ \E c \in DOMAIN calls : TourThumbDone(c)
  \/ \E c \in DOMAIN calls : TourFullDone(c)
  \/ \E c \in DOMAIN calls : TourArchiveDone(c)
  \/ \E c \in DOMAIN calls : TourRemoveDone(c)
  \/ \E c \in DOMAIN calls : TourStatDone(c)
  \/ Tick

SpecTour == InitTour /\ [][NextTour]_vars

\* a request for any of the tools
InitAll ==
  /\ InitEnv
  /\ pathIn = Num42
  /\ pathOut = PathIdle
  /\ renderIn = NoRender
  /\ renderOut = RenderIdle
  /\ calls \in {[c \in {1} |-> cr] : cr \in RenameCalls \cup BatchCalls \cup SingleCalls \cup OtherCalls \cup TourCalls}

NextAll ==
  \/ \E c \in DOMAIN calls : RenameStart(c)
  \/ \E c \in DOMAIN calls : RenameMkdirDone(c)
  \/ \E c \in DOMAIN calls : RenameParseDone(c)
  \/ \E c \in DOMAIN calls : RenameHop1Done(c)
  \/ \E c \in DOMAIN calls : RenameHop2Done(c)
  \/ \E c \in DOMAIN calls : RenameDirectDone(c)
  \/ \E c \in DOMAIN calls : BatchStart(c)
  \/ \E c \in DOMAIN calls : BatchParseDone(c)
  \/ \E c \in DOMAIN calls : ParseExif(c)
  \/ \E c \in DOMAIN calls : GpsStart(c)
  \/ \E c \in DOMAIN calls : GpsDone(c)
  \/ \E c \in DOMAIN calls : ListTools(c)
  \/ \E c \in DOMAIN calls : UnknownTool(c)
  \/ \E c \in DOMAIN calls : TourStart(c)
  \/ \E c \in DOMAIN calls : TourParseDone(c)
  \/ \E c \in DOMAIN calls : TourMkdirTemp(c)
  \/ \E c \in DOMAIN calls : TourMkdirImages(c)
  \/ \E c \in DOMAIN calls : TourWriteKml(c)
  \/ \E c \in DOMAIN calls : TourThumbDone(c)
  \/ \E c \in DOMAIN calls : TourFullDone(c)
  \/ \E c \in DOMAIN calls : TourArchiveDone(c)
  \/ \E c \in DOMAIN calls : TourRemoveDone(c)
  \/ \E c \in DOMAIN calls : TourStatDone(c)
  \/ Tick

SpecAll == InitAll /\ [][NextAll]_vars

InitPath ==
  /\ InitEnv
  /\ pathIn \in PathInputs
  /\ pathOut = PathIdle
  /\ renderIn = NoRender
  /\ renderOut = RenderIdle
  /\ calls = <<>>

NextPath == ValidatePath

SpecPath == InitPath /\ [][NextPath]_vars

\* the filepaths of two requests handled at the same time
PairFilepaths ==
  {[isArray |-> TRUE, elems |-> e] :
     e \in {<<Str("/w/a.jpg")>>, <<Str("/w/c.jpg")>>}}

\* commit-mode rename_by_exif requests, with and without backup
PairCalls ==
  {InitCall("rename_by_exif", Args(f, Num42, t, Given(FALSE), b, Absent)) :
     f \in PairFilepaths, t \in {OmittedStr, Given("b")}, b \in {OmittedBool, Given(FALSE)}}

\* two requests arrive; the handler of one runs while the other awaits
InitPair ==
  /\ InitEnv
  /\ pathIn = Num42
  /\ pathOut = PathIdle
  /\ renderIn = NoRender
  /\ renderOut = RenderIdle
  /\ calls \in [{1, 2} -> PairCalls]

NextPair ==
  \/ \E c \in DOMAIN calls : RenameStart(c)
  \/ \E c \in DOMAIN calls : RenameMkdirDone(c)
  \/ \E c \in DOMAIN calls : RenameParseDone(c)
  \/ \E c \in DOMAIN calls : RenameHop1Done(c)
  \/ \E c \in DOMAIN calls : RenameHop2Done(c)
  \/ \E c \in DOMAIN calls : RenameDirectDone(c)
  \/ Tick

SpecPair == InitPair /\ [][NextPair]_vars

\* the filepaths of a request that is first previewed and then committed
PredictFilepaths ==
  {[isArray |-> TRUE, elems |-> e] :
     e \in UNION {[1..n -> {Str("/w/a.jpg"), Str("/w/e.jpg")}] : n \in 1..MaxFiles}}

\* the same rename_by_exif arguments, as a dry run and as a commit
PredictPairs ==
  {[c \in {1, 2} |->
      InitCall("rename_by_exif", Args(f, Num42, t, Given(c = 1), b, Absent))] :
     f \in PredictFilepaths, t \in {OmittedStr, Given("b")}, b \in {OmittedBool, Given(FALSE)}}

\* the caller sends the dry run, and the commit once the preview has returned
InitPredict ==
  /\ InitEnv
  /\ pathIn = Num42
  /\ pathOut = PathIdle
  /\ renderIn = NoRender
  /\ renderOut = RenderIdle
  /\ calls \in PredictPairs

\* call c is the dry run, or the commit after the dry run has returned
InTurn(c) == c = 1 \/ calls[1].pc = "done"

NextPredict ==
  \/ \E c \in DOMAIN calls : InTurn(c) /\ RenameStart(c)
  \/ \E c \in DOMAIN calls : InTurn(c) /\ RenameMkdirDone(c)
  \/ \E c \in DOMAIN calls : InTurn(c) /\ RenameParseDone(c)
  \/ \E c \in DOMAIN calls : InTurn(c) /\ RenameHop1Done(c)
  \/ \E c \in DOMAIN calls : InTurn(c) /\ RenameHop2Done(c)
  \/ \E c \in DOMAIN calls : InTurn(c) /\ RenameDirectDone(c)
  \/ Tick

SpecPredict == InitPredict /\ [][NextPredict]_vars

InitRender ==
  /\ InitEnv
  /\ pathIn = Num42
  /\ pathOut = PathIdle
  /\ renderIn \in RenderInputs
  /\ renderOut = RenderIdle
  /\ calls = <<>>

NextRender == RenderTwice

SpecRender == InitRender /\ [][NextRender]_vars

(***************************************************************************)
(* Claims                                                                  *)
(***************************************************************************)
IsRename(cr) == cr.tool = "rename_by_exif"
IsCommit(cr) == IsRename(cr) /\ ~dryRunOf(cr)
Reported(cr) == cr.pc = "done" /\ cr.response.sent /\ ~cr.response.isError
NumItems(cr) == Len(cr.args.filepaths.elems)
FsOps == {"existsSync", "mkdir", "parse", "rename"}
OplogOf(c, ops) == {k \in 1..Len(oplog) : oplog[k].call = c /\ oplog[k].op \in ops}

\* containment by whole path segments
withinRootBySegments(p) == p = cwd \/ StartsWith(p, cwd \o "/")

\* C1: a path returned by validateFilePath is the working directory or a
\* descendant of it, compared by whole path segments.
C1_ReturnedPathWithinRoot ==
  (pathOut.done /\ pathOut.res.ok) => withinRootBySegments(pathOut.res.path)

\* C2: every file system operation on a path derived from a caller-supplied
\* path comes after a successful validateFilePath of that caller-supplied path
\* in the same invocation.
C2_ValidatedBeforeUse ==
  \A k \in 1..Len(oplog) :
    oplog[k].op \in FsOps =>
      \E j \in 1..(k - 1) :
        /\ oplog[j].call = oplog[k].call
        /\ oplog[j].op = "validate"
        /\ oplog[j].src = oplog[k].src
        /\ oplog[j].ok

\* C3: in a commit-mode batch no move lands on a path that holds a different
\* file, and two items reported renamed into one directory, for two different
\* files, have different final names.
C3_NoMoveOntoOtherFile ==
  \A c \in DOMAIN calls :
    IsCommit(calls[c]) =>
      /\ \A k \in OplogOf(c, {"rename"}) : ~oplog[k].over
      /\ \A k1, k2 \in 1..Len(calls[c].results) :
           LET r1 == calls[c].results[k1]
               r2 == calls[c].results[k2]
           IN (r1.file # r2.file /\ r1.status = "renamed" /\ r2.status = "renamed"
                /\ dirname(r1.finalPath) = dirname(r2.finalPath)) => r1.new # r2.new

\* C4: a dry run (dryRun true or omitted) moves no file and creates no
\* directory, whatever backup is, and its report gives every input one
\* outcome, preview unless the item failed.
C4_DryRunLeavesFilesystem ==
  \A c \in DOMAIN calls :
    (IsRename(calls[c]) /\ dryRunOf(calls[c])) =>
      /\ files = Files0
      /\ dirs = Dirs0
      /\ OplogOf(c, {"mkdir", "rename"}) = {}
      /\ \A k \in 1..Len(calls[c].results) : calls[c].results[k].status \in {"preview", "error"}
      /\ Reported(calls[c]) =>
           \A i \in 1..NumItems(calls[c]) :
             \E k \in 1..Len(calls[c].results) : calls[c].results[k].item = i

C4_Witness ==
  \E c \in DOMAIN calls :
    /\ IsRename(calls[c]) /\ ~calls[c].args.dryRun.has /\ backupOf(calls[c])
    /\ Reported(calls[c])
    /\ \E k \in 1..Len(calls[c].results) : calls[c].results[k].status = "preview"

\* C5: a report for N inputs has exactly N outcomes, the i-th describing the
\* i-th input.
C5_OneOutcomePerInput ==
  \A c \in DOMAIN calls :
    (IsRename(calls[c]) /\ Reported(calls[c])) =>
      /\ Len(calls[c].results) = NumItems(calls[c])
      /\ \A i \in 1..Len(calls[c].results) : calls[c].results[i].item = i

\* C6: in rename_by_exif and parse_exif_batch a failing element, string or
\* not, becomes an error record, the later elements are still processed and
\* the invocation does not end in a tool-level error.
C6_ItemFailureIsolated ==
  \A c \in DOMAIN calls :
    LET cr == calls[c]
    IN (/\ cr.tool \in {"rename_by_exif", "parse_exif_batch"}
        /\ cr.pc = "done"
        /\ cr.args.filepaths.isArray /\ cr.args.filepaths.elems # <<>>
        /\ \A k \in OplogOf(c, {"mkdir"}) : oplog[k].ok)
       => /\ ~cr.response.isError
          /\ \A i \in 1..NumItems(cr) : \E k \in 1..Len(cr.results) : cr.results[k].item = i

\* the step in which call c reports its current item renamed
ReportsRenamed(c) ==
  /\ IsCommit(calls[c]) /\ backupOf(calls[c])
  /\ calls[c].pc = "hop2"
  /\ Len(calls'[c].results) >= Len(calls[c].results)
  /\ calls'[c].results[Len(calls[c].results)].status = "renamed"

C8_BackupRetainsCopies ==
  \A c \in DOMAIN calls :
    LET cr == calls[c]
    IN (/\ IsCommit(cr) /\ backupOf(cr) /\ Reported(cr)
        /\ \A k \in 1..Len(cr.results) : cr.results[k].status = "renamed")
       => /\ Cardinality(OplogOf(c, {"mkdir"})) = 1
          /\ \A k \in 1..Len(cr.results) :
               LET r == cr.results[k]
               IN /\ r.finalPath \in DOMAIN files /\ files[r.finalPath] = r.file
                  /\ join(cr.backupDir, r.original) \in DOMAIN files

\* the number of inputs before input i that the batch reported preview or renamed
SucceededBefore(cr, i) ==
  Cardinality({j \in 1..(i - 1) :
                 \E k \in 1..Len(cr.results) :
                   cr.results[k].item = j /\ cr.results[k].status \in {"preview", "renamed"}})

\* the rendered result r of the batch used the counter value n
RenderedWith(cr, r, n) ==
  /\ r.counter = n
  /\ templateOf(cr) = "{counter}" => StartsWith(r.new, counterText(n))

\* C9 as stated: the k-th input is rendered with counterStart + k - 1,
\* whatever the outcome of the inputs before it.
C9_CounterOncePerItem ==
  \A c \in DOMAIN calls :
    IsRename(calls[c]) =>
      \A k \in 1..Len(calls[c].results) :
        LET r == calls[c].results[k]
        IN r.status # "error" => RenderedWith(calls[c], r, counterStartOf(calls[c]) + r.item - 1)

\* C9 amended: the counter advances once per item reported preview or
\* renamed and not for an item that ends in error: the k-th input is rendered
\* with counterStart plus the number of earlier inputs reported preview or
\* renamed.
C9_CounterOncePerSuccess ==
  \A c \in DOMAIN calls :
    IsRename(calls[c]) =>
      \A k \in 1..Len(calls[c].results) :
        LET r == calls[c].results[k]
        IN r.status # "error" =>
             RenderedWith(calls[c], r, counterStartOf(calls[c]) + SucceededBefore(calls[c], r.item))

C9_Witness ==
  \E c \in DOMAIN calls :
    /\ IsRename(calls[c]) /\ templateOf(calls[c]) = "{counter}" /\ counterStartOf(calls[c]) = 7
    /\ \E k1, k2 \in 1..Len(calls[c].results) :
         /\ calls[c].results[k1].item = 1 /\ calls[c].results[k1].status = "error"
         /\ calls[c].results[k2].item = 2 /\ calls[c].results[k2].status \in {"preview", "renamed"}
         /\ calls[c].results[k2].new = "007.jpg"

\* the tour of the call is assembled: sorted and its document generated
TourAssembled(cr) ==
  cr.tool = "create_photo_tour_kmz" /\ cr.kmlContent # <<>>

\* the <name> lines of the photo placemarks of a document, in document order
PlacemarkNames(kml) ==
  SelectSeq(kml, LAMBDA l : StartsWith(l, "      <name>"))

\* C10: the entries of an assembled tour are in non-decreasing order of
\* timestamp, and the sequence numbers are assigned after the sort: the i-th
\* entry in time order carries the number i, in the entry and in the name the
\* document shows for it.
C10_NumberedInTimeOrder ==
  \A c \in DOMAIN calls :
    LET cr == calls[c]
    IN TourAssembled(cr) =>
         /\ \A i \in 1..(Len(cr.photoData) - 1) :
              cr.photoData[i].datetime <= cr.photoData[i + 1].datetime
         /\ \A i \in 1..Len(cr.photoData) :
              /\ cr.photoData[i].number = i
              /\ numberPhotosOf(cr) =>
                   StartsWith(PlacemarkNames(cr.kmlContent)[i], "      <name>" \o NumToString(i) \o ". ")

\* the part of C10 the code keeps: the entries are in non-decreasing order of
\* timestamp and the document lists one placemark per entry in that order.
C10_SortedByTimestamp ==
  \A c \in DOMAIN calls :
    LET cr == calls[c]
    IN TourAssembled(cr) =>
         /\ \A i \in 1..(Len(cr.photoData) - 1) :
              cr.photoData[i].datetime <= cr.photoData[i + 1].datetime
         /\ Len(PlacemarkNames(cr.kmlContent)) = Len(cr.photoData)

\* the collection loop of the tour call has run over all its inputs
TourCollectedAll(cr) ==
  cr.tool = "create_photo_tour_kmz" /\ cr.pc \notin {"start", "parse"}

\* the inputs of call c whose metadata was read and carries both a latitude
\* and a longitude, whatever their numeric value
ReadWithCoordinates(c) ==
  {i \in 1..Len(calls[c].args.filepaths.elems) :
     \E k \in 1..Len(oplog) :
       /\ oplog[k].call = c /\ oplog[k].op = "parse" /\ oplog[k].src = i /\ oplog[k].ok
       /\ oplog[k].path \in DOMAIN Files0
       /\ LET m == Meta(Files0[oplog[k].path])
          IN m.present /\ m.latitude.has /\ m.longitude.has}

\* C11: the entry list of a tour holds exactly the inputs that passed
\* validation and whose metadata carries both a latitude and a longitude, for
\* every numeric value of the coordinates: one entry per such input, and no
\* entry for any other input.
C11_EntriesAreFilesWithCoordinates ==
  \A c \in DOMAIN calls :
    LET cr == calls[c]
    IN TourCollectedAll(cr) =>
         /\ Len(cr.photoData) = Cardinality(ReadWithCoordinates(c))
         /\ \A i \in ReadWithCoordinates(c) :
              \E k \in 1..Len(cr.photoData) :
                cr.photoData[k].filepath = resolve(cr.args.filepaths.elems[i].v)
         /\ \A k \in 1..Len(cr.photoData) :
              \E i \in ReadWithCoordinates(c) :
                cr.photoData[k].filepath = resolve(cr.args.filepaths.elems[i].v)

NoGpsNotice == "No photos with GPS data found in the provided files."

\* the top-level arguments of the tour call pass the checks before the loop
TourArgsAccepted(cr) ==
  /\ cr.tool = "create_photo_tour_kmz"
  /\ cr.args.filepaths.isArray /\ cr.args.filepaths.elems # <<>>
  /\ validateFilePath(cr.args.tour.outputPath).ok
  /\ EndsWith(validateFilePath(cr.args.tour.outputPath).path, ".kmz")

\* C12: when no input of create_photo_tour_kmz yields an entry, the call
\* returns the 'No photos with GPS data' notice, not flagged as an error, and
\* has created neither the archive at outputPath nor the scratch workspace.
C12_NoEntriesGivesNotice ==
  \A c \in DOMAIN calls :
    LET cr == calls[c]
    IN (TourArgsAccepted(cr) /\ cr.pc = "done" /\ cr.photoData = <<>>) =>
         /\ cr.response.sent /\ ~cr.response.isError /\ cr.response.text = NoGpsNotice
         /\ OplogOf(c, {"mkdir", "writeFile", "toFile", "archive", "rm"}) = {}
         /\ files = Files0 /\ dirs = Dirs0

C12_Witness ==
  \E c \in DOMAIN calls :
    /\ TourArgsAccepted(calls[c]) /\ calls[c].pc = "done"
    /\ calls[c].response.text = NoGpsNotice
    /\ \E k \in 1..Len(oplog) : oplog[k].call = c /\ oplog[k].op = "parse" /\ oplog[k].ok

\* C13: once create_photo_tour_kmz has created its scratch workspace, the
\* workspace is gone when the call has returned its response, whether
\* writing the document, generating the images and packaging succeeded or
\* failed.
C13_WorkspaceDeletedBeforeResponse ==
  \A c \in DOMAIN calls :
    LET cr == calls[c]
    IN (cr.tool = "create_photo_tour_kmz" /\ cr.pc = "done" /\ cr.response.sent) =>
         (cr.tempDir = "" \/ \A d \in dirs : ~Under(cr.tempDir, d))

XmlEntities == {"&amp;", "&lt;", "&gt;", "&quot;", "&apos;"}

\* the text e holds no literal <, >, double or single quote, and & only as
\* the start of one of the five entities
NoLiteralMetachar(e) ==
  \A i \in 1..Len(e) :
    /\ Ch(e, i) \notin {"<", ">", "\"", "'"}
    /\ Ch(e, i) = "&" =>
         \E ent \in XmlEntities : i + Len(ent) - 1 <= Len(e) /\ SubSeq(e, i, i + Len(ent) - 1) = ent

\* the <description> lines of the photo placemarks of a document, in document order
PlacemarkDescriptions(kml) ==
  SelectSeq(kml, LAMBDA l : StartsWith(l, "      <description>"))

\* C14: in the document generateKML produces, the title, the description
\* and each photo's filename, camera and lens are embedded with each of the
\* five XML metacharacters replaced by its entity, so that none of them
\* contributes a literal <, >, &, double or single quote.
C14_EmbeddedStringsEscaped ==
  \A c \in DOMAIN calls :
    LET cr == calls[c]
    IN TourAssembled(cr) =>
         /\ NoLiteralMetachar(escapeXml(titleOf(cr)))
         /\ cr.kmlContent[4] = "  <name>" \o escapeXml(titleOf(cr)) \o "</name>"
         /\ descriptionOf(cr) # "" =>
              /\ NoLiteralMetachar(escapeXml(descriptionOf(cr)))
              /\ cr.kmlContent[5] = "  <description>" \o escapeXml(descriptionOf(cr)) \o "</description>"
         /\ \A i \in 1..Len(cr.photoData) :
              LET photo == cr.photoData[i]
              IN /\ NoLiteralMetachar(escapeXml(photo.filename))
                 /\ EndsWith(PlacemarkNames(cr.kmlContent)[i], escapeXml(photo.filename) \o "</name>")
                 /\ photo.camera # "" =>
                      Includes(PlacemarkDescriptions(cr.kmlContent)[i],
                               "Camera: " \o escapeXml(photo.camera) \o "<br/>")
                 /\ photo.lens # "" =>
                      Includes(PlacemarkDescriptions(cr.kmlContent)[i],
                               "Lens: " \o escapeXml(photo.lens) \o "<br/>")

\* the call has a top-level argument the handler rejects before any item
ArgumentError(cr) ==
  \/ /\ cr.tool \in {"parse_exif_batch", "rename_by_exif", "create_photo_tour_kmz"}
     /\ ~cr.args.filepaths.isArray \/ cr.args.filepaths.elems = <<>>
  \/ /\ cr.tool = "create_photo_tour_kmz"
     /\ \/ ~validateFilePath(cr.args.tour.outputPath).ok
        \/ ~EndsWith(validateFilePath(cr.args.tour.outputPath).path, ".kmz")

\* the operations that change the file system
MutatingOps == {"mkdir", "rename", "writeFile", "toFile", "archive", "rm"}

\* C15: a call with a tool-level argument error (filepaths absent, not an
\* array or empty; outputPath failing validation or not ending in .kmz) is
\* answered by one error-flagged response without per-item results, and
\* changes nothing in the file system: no backup directory, no scratch
\* workspace, no archive, no move.
C15_ArgumentErrorAborts ==
  \A c \in DOMAIN calls :
    LET cr == calls[c]
    IN ArgumentError(cr) =>
         /\ OplogOf(c, MutatingOps) = {}
         /\ files = Files0 /\ dirs = Dirs0
         /\ cr.pc \in {"start", "done"}
         /\ cr.pc = "done" =>
              /\ cr.response.sent /\ cr.response.isError
              /\ cr.results = <<>> /\ cr.photoData = <<>>

C15_Witness ==
  \E c \in DOMAIN calls :
    /\ calls[c].tool = "create_photo_tour_kmz" /\ calls[c].pc = "done"
    /\ calls[c].args.filepaths.elems = <<Str("/w/a.jpg")>>
    /\ calls[c].args.tour.outputPath = Str("/w/t.zip")
    /\ calls[c].response.isError
    /\ calls[c].response.text = "Error: Output path must end with .kmz extension"

\* C16: for a filepath naming an existing supported image inside the root,
\* parse_exif returns a response that is not error-flagged (the report, or
\* the 'No EXIF data found' notice).
C16_ParseExifAnswersValidFile ==
  \A c \in DOMAIN calls :
    LET cr == calls[c]
    IN (/\ cr.tool = "parse_exif" /\ cr.pc = "done"
        /\ checkItem(FS, cr.args.filepath).ok) =>
         cr.response.sent /\ ~cr.response.isError

\* the metadata of the render under test
RenderMeta == Meta(renderIn.file)

\* C17 as stated: two renders of the same template, metadata (with a capture
\* date, lacking both dates, or none), formats, original name and counter
\* give the same filename, whatever the wall-clock time of each render.
C17_RenderIgnoresClock ==
  renderOut.done => renderOut.first = renderOut.second

\* C17 amended: the two renders give the same filename when the metadata has
\* a capture date or there is no metadata at all; for a metadata record
\* lacking both DateTimeOriginal and CreateDate the render equals that of
\* the same record dated with the wall-clock time of the render.
C17_RenderIgnoresClockGivenDate ==
  renderOut.done =>
    IF RenderMeta.present /\ RenderMeta.DateTimeOriginal = NoDate /\ RenderMeta.CreateDate = NoDate
    THEN /\ renderOut.first =
              renderName(renderIn.template, [RenderMeta EXCEPT !.DateTimeOriginal = renderIn.firstClock],
                         DefaultDateFormat, DefaultTimeFormat, "a", renderIn.counter, renderIn.secondClock)
         /\ renderOut.second =
              renderName(renderIn.template, [RenderMeta EXCEPT !.DateTimeOriginal = renderIn.secondClock],
                         DefaultDateFormat, DefaultTimeFormat, "a", renderIn.counter, renderIn.firstClock)
    ELSE renderOut.first = renderOut.second

C17_Witness ==
  /\ renderOut.done
  /\ renderIn.template = DefaultTemplate /\ renderIn.file = "f1"
  /\ renderIn.firstClock # renderIn.secondClock
  /\ renderOut.first = "2024-07-09_143024_Canon_a"

\* the call is a commit-mode rename_by_exif with backup that chose its backup directory
ChoseBackupDir(cr) ==
  IsCommit(cr) /\ backupOf(cr) /\ cr.backupDir # ""

\* C18: two commit-mode rename_by_exif calls with backup that are handled
\* at the same time, interleaved at their awaits, never select the same
\* backup directory, also when both start within the same timestamp on
\* files of the same directory.
C18_BackupDirNotShared ==
  \A c1, c2 \in DOMAIN calls :
    (c1 # c2 /\ ChoseBackupDir(calls[c1]) /\ ChoseBackupDir(calls[c2])) =>
      calls[c1].backupDir # calls[c2].backupDir

\* the tools the tests expect the server to define
ExpectedTools ==
  {"parse_exif", "parse_exif_batch", "get_gps_coordinates", "rename_by_exif", "strip_exif",
   "create_photo_tour_kmz"}

\* C19: the tool list the server returns defines every tool the tests
\* expect: parse_exif, parse_exif_batch, get_gps_coordinates, rename_by_exif,
\* strip_exif and create_photo_tour_kmz.
C19_ToolListHasExpectedTools ==
  \A c \in DOMAIN calls :
    (calls[c].tool = "tools/list" /\ calls[c].pc = "done") =>
      ExpectedTools \subseteq calls[c].response.tools

\* event k of the history is a probe of a backup directory name
IsBackupDirProbe(k) ==
  oplog[k].op = "existsSync" /\ StartsWith(basename(oplog[k].path), "exif_backup_")

\* the operations that validate, read or move an item
ItemOps == {"validate", "existsSync", "parse", "rename"}

\* C20: in one rename_by_exif call the backup directory is created at most
\* once, only when backup is true and dryRun is false, and before any item is
\* validated, read or moved.
C20_BackupDirCreatedOnceFirst ==
  \A c \in DOMAIN calls :
    IsRename(calls[c]) =>
      /\ Cardinality(OplogOf(c, {"mkdir"})) <= 1
      /\ OplogOf(c, {"mkdir"}) # {} => (backupOf(calls[c]) /\ ~dryRunOf(calls[c]))
      /\ \A k \in OplogOf(c, {"mkdir"}) :
           \A j \in 1..(k - 1) : oplog[j].call = c => IsBackupDirProbe(j)
      /\ (backupOf(calls[c]) /\ ~dryRunOf(calls[c])) =>
           \A k \in OplogOf(c, ItemOps) :
             ~IsBackupDirProbe(k) => \E j \in 1..(k - 1) : j \in OplogOf(c, {"mkdir"}) /\ oplog[j].ok

C20_Witness ==
  \E c \in DOMAIN calls :
    /\ IsCommit(calls[c]) /\ backupOf(calls[c]) /\ Reported(calls[c])
    /\ Len(calls[c].args.filepaths.elems) = 2
    /\ Cardinality(OplogOf(c, {"mkdir"})) = 1
    /\ Cardinality(OplogOf(c, {"rename"})) = 4

\* the files the inputs of the call name in the initial file system
InputFilePaths(cr) ==
  {resolve(cr.args.filepaths.elems[i].v) :
     i \in {j \in 1..Len(cr.args.filepaths.elems) : cr.args.filepaths.elems[j].t = "string"}}
    \cap DOMAIN Files0

\* C21: a commit batch with backup loses no input file: at every point
\* during and after the batch each input file that existed at the start is
\* at its original path, in the backup directory of the batch, or at a final
\* path of the batch, also when the second hop of an item fails and later
\* items of the same base name are processed.
C21_NoInputFileLost ==
  \A c \in DOMAIN calls :
    LET cr == calls[c]
    IN (IsCommit(cr) /\ backupOf(cr)) =>
         \A p0 \in InputFilePaths(cr) :
           \E p \in DOMAIN files :
             /\ files[p] = Files0[p0]
             /\ \/ p = p0
                \/ (cr.backupDir # "" /\ dirname(p) = cr.backupDir)
                \/ \E k \in 1..Len(cr.results) : cr.results[k].finalPath = p

\* the positions at which the handler of rename_by_exif waits for a file
\* system call or a parse to complete
RenameAwaits == {"start", "mkdir", "parse", "hop1", "hop2", "direct"}

\* input i of call c was attempted: the loop reached it and validated it
Attempted(c, i) ==
  \E k \in 1..Len(oplog) : oplog[k].call = c /\ oplog[k].op = "validate" /\ oplog[k].src = i

\* the creation of the backup directory of call c failed
BackupDirFailed(c) ==
  \E k \in OplogOf(c, {"mkdir"}) : ~oplog[k].ok

\* C22: a rename_by_exif call with a non-empty filepaths array returns after
\* attempting all items: while it has not returned its handler is at an
\* await whose completion is its next step (the name probes have stopped),
\* and when it has returned every input was attempted, whatever items failed
\* before it.
C22_ReturnsAfterAllItems ==
  \A c \in DOMAIN calls :
    LET cr == calls[c]
    IN (IsRename(cr) /\ cr.args.filepaths.isArray /\ cr.args.filepaths.elems # <<>>
        /\ ~BackupDirFailed(c)) =>
         /\ cr.pc # "done" => cr.pc \in RenameAwaits
         /\ cr.pc = "done" => \A i \in 1..Len(cr.args.filepaths.elems) : Attempted(c, i)

\* C23: a dry run predicts the commit: for the same arguments and the same
\* initial file system, the name reported with status preview for an item
\* equals the name a commit run reports with status renamed for that item,
\* also when several items render to the same candidate name.
C23_PreviewEqualsCommit ==
  (/\ DOMAIN calls = {1, 2}
   /\ IsRename(calls[1]) /\ dryRunOf(calls[1]) /\ IsCommit(calls[2])
   /\ calls[1].args.filepaths = calls[2].args.filepaths
   /\ calls[1].pc = "done" /\ calls[2].pc = "done") =>
    \A k1 \in 1..Len(calls[1].results), k2 \in 1..Len(calls[2].results) :
      (/\ calls[1].results[k1].item = calls[2].results[k2].item
       /\ calls[1].results[k1].status = "preview"
       /\ calls[2].results[k2].status = "renamed") =>
        calls[1].results[k1].new = calls[2].results[k2].new

\* the items call c reports renamed
RenamedResults(c) ==
  {k \in 1..Len(calls[c].results) : calls[c].results[k].status = "renamed"}

\* C24: two commit-mode rename_by_exif calls interleaved at their awaits never
\* move two different source files onto the same final path: no item of one
\* call and item of the other call, of different files, are both reported
\* renamed to one final path.
C24_NoSharedFinalPath ==
  \A c1, c2 \in DOMAIN calls :
    (c1 # c2 /\ IsCommit(calls[c1]) /\ IsCommit(calls[c2])) =>
      \A k1 \in RenamedResults(c1), k2 \in RenamedResults(c2) :
        calls[c1].results[k1].file # calls[c2].results[k2].file =>
          calls[c1].results[k1].finalPath # calls[c2].results[k2].finalPath

====
